---------------------------- MODULE Spec2Model ----------------------------
(***************************************************************************)
(* A model of the label-driven reconciliation engine of                    *)
(* github-webhook-server: the labels of one pull request on the hosting    *)
(* platform, the commit statuses of its last commit, and the handlers of   *)
(* webhook_server_container/libs/github_api.py (and of gitlab_api.py for   *)
(* the merge-request comment path) that read and change them.              *)
(*                                                                         *)
(* Labels, user names and status contexts are the strings of the program.  *)
(* The labels of the pull request are the ordered list the platform        *)
(* returns; a handler reads them through the pull-request object it        *)
(* fetched when it started (self.pull_request), and writes them through    *)
(* add_to_labels / remove_from_labels.                                     *)
(***************************************************************************)
EXTENDS Integers, Sequences, FiniteSets, Bags, TLC

VARIABLES
    labels,           \* the pull request's labels on the platform, in list order
    statuses,         \* the statuses of the last commit: [context, state, updated_at]
    check_runs,       \* the conclusions of the last commit's check runs
    mergeable_state,  \* pull_request.mergeable_state
    approvers,        \* OWNERS approvers
    verified_job,     \* repository configuration, verified_job
    platform,         \* "github" or "gitlab": which of the two servers runs
    author,           \* the login of the change request's author
    merged,           \* the pull request is merged
    approved,         \* GitLab: merge_request.approved
    events,           \* the bag of labeled / unlabeled deliveries not yet processed
    delivered,        \* how many deliveries from outside have been processed
    prev,             \* the record of the handler run before the last one
    last,             \* the record of the last handler run
    workers           \* per worker: what it processes and the labels it fetched

vars == <<labels, statuses, check_runs, mergeable_state, approvers,
          verified_job, platform, author, merged, approved, events,
          delivered, prev, last, workers>>

-----------------------------------------------------------------------------
(* Bounds of the model *)

\* The longest label list SpecEval draws as an input.
MaxLabels == 3

-----------------------------------------------------------------------------
(* Strings: the operations of Python's str the program uses *)

\* One character of str.lower().
LowerChar(c) ==
    CASE c = "A" -> "a" [] c = "B" -> "b" [] c = "C" -> "c" [] c = "D" -> "d"
      [] c = "E" -> "e" [] c = "F" -> "f" [] c = "G" -> "g" [] c = "H" -> "h"
      [] c = "I" -> "i" [] c = "J" -> "j" [] c = "K" -> "k" [] c = "L" -> "l"
      [] c = "M" -> "m" [] c = "N" -> "n" [] c = "O" -> "o" [] c = "P" -> "p"
      [] c = "Q" -> "q" [] c = "R" -> "r" [] c = "S" -> "s" [] c = "T" -> "t"
      [] c = "U" -> "u" [] c = "V" -> "v" [] c = "W" -> "w" [] c = "X" -> "x"
      [] c = "Y" -> "y" [] c = "Z" -> "z" [] OTHER -> c

\* str.lower()
RECURSIVE Lower(_)
Lower(s) ==
    IF Len(s) = 0 THEN ""
    ELSE LowerChar(SubSeq(s, 1, 1)) \o Lower(SubSeq(s, 2, Len(s)))

\* sub in s
Contains(sub, s) ==
    \E i \in 1..(Len(s) - Len(sub) + 1) : SubSeq(s, i, i + Len(sub) - 1) = sub

\* s.startswith(p)
StartsWith(s, p) ==
    Len(p) <= Len(s) /\ SubSeq(s, 1, Len(p)) = p

\* s.split(sep)[-1], sep one character: the text after the last sep.
RECURSIVE SplitLast(_, _)
SplitLast(s, sep) ==
    IF ~Contains(sep, s) THEN s
    ELSE LET i == CHOOSE k \in 1..Len(s) : SubSeq(s, k, k) = sep
                      /\ \A j \in 1..(k - 1) : SubSeq(s, j, j) # sep
         IN SplitLast(SubSeq(s, i + 1, Len(s)), sep)

IsSpace(c) == c \in {" ", "\n", "\t", "\r"}

\* str.strip()
RECURSIVE Strip(_)
Strip(s) ==
    IF Len(s) = 0 THEN s
    ELSE IF IsSpace(SubSeq(s, 1, 1)) THEN Strip(SubSeq(s, 2, Len(s)))
    ELSE IF IsSpace(SubSeq(s, Len(s), Len(s))) THEN Strip(SubSeq(s, 1, Len(s) - 1))
    ELSE s

\* The elements of a sequence.
Range(f) == {f[i] : i \in DOMAIN f}

\* lst without every occurrence of x, order kept.
RECURSIVE Without(_, _)
Without(lst, x) ==
    IF lst = <<>> THEN <<>>
    ELSE IF Head(lst) = x THEN Without(Tail(lst), x)
    ELSE <<Head(lst)>> \o Without(Tail(lst), x)

\* The lists without repetition over S of at most n elements.
RECURSIVE ListsOver(_, _)
ListsOver(S, n) ==
    IF n = 0 THEN {<<>>}
    ELSE LET shorter == ListsOver(S, n - 1)
         IN shorter \cup {Append(l, x) : l \in shorter, x \in S}

NoRepeat(l) == \A i, j \in DOMAIN l : i # j => l[i] # l[j]

OrderedSets(S, n) == {l \in ListsOver(S, n) : NoRepeat(l)}

-----------------------------------------------------------------------------
(* utils/constants.py *)

ADD_STR == "add"
DELETE_STR == "delete"
SUCCESS_STR == "success"
PENDING_STR == "pending"
FAILURE_STR == "failure"
VERIFIED_LABEL_STR == "verified"
HOLD_LABEL_STR == "hold"
WIP_STR == "wip"
LGTM_STR == "lgtm"
NEEDS_REBASE_LABEL_STR == "needs-rebase"
CAN_BE_MERGED_STR == "can-be-merged"
APPROVED_BY_LABEL_PREFIX == "Approved-By-"
CHANGED_REQUESTED_BY_LABEL_PREFIX == "Changes-requested-By-"
COMMENTED_BY_LABEL_PREFIX == "Commented-By-"
\* The keys of USER_LABELS_DICT: the labels a comment may set.
USER_LABELS_DICT == {HOLD_LABEL_STR, VERIFIED_LABEL_STR, WIP_STR, LGTM_STR}
\* The keys of STATIC_LABELS_DICT: labels that exist in the repository.
STATIC_LABELS_DICT ==
    USER_LABELS_DICT \cup {CAN_BE_MERGED_STR, NEEDS_REBASE_LABEL_STR}

-----------------------------------------------------------------------------
(* The state one handler run works on *)

\* What a handler run finds outside the labels and statuses: the
\* configuration of the repository (tox_enabled, build_and_push_container,
\* pypi), the pull request (is_merged, title, head_ref, merge_commit_sha),
\* the branches and the open pull requests of the repository, each with
\* its mergeable state and its labels, the order in which the run iterates over a set of branch
\* names, and how the commands it runs end: clone, checkout, job (tox, podman
\* build, pipx install) and push tell whether the command succeeds, git
\* gives for a target branch the step of _cherry_pick that fails, issue
\* tells whether the issue opened for the pull request is there, reviewers
\* are the reviewers of the OWNERS file, size is the number of lines the pull
\* request adds and deletes.
DefaultEnv ==
    [tox_enabled |-> FALSE, build_and_push_container |-> FALSE, pypi |-> FALSE,
     is_merged |-> FALSE, title |-> "Fix the parser", head_ref |-> "fix-parser",
     merge_commit_sha |-> "a1b2c3d", branches |-> {}, open_pulls |-> <<>>,
     set_order |-> <<>>, clone |-> TRUE, checkout |-> TRUE, job |-> TRUE,
     push |-> TRUE, git |-> [b \in {} |-> "none"], issue |-> TRUE,
     reviewers |-> <<>>, size |-> 10]

\* A handler starts by fetching the pull request (self._get_pull_request())
\* and its last commit: pr_labels are the labels of the fetched object, which
\* every later read of self.pull_request.labels returns; labels and statuses
\* are the platform's, which the handler's calls change.  calls lists the
\* mutating calls made to the platform, raised tells that a call raised (the
\* rest of the handler is then not executed), can_be_merged is the result
\* of check_if_can_be_merged ("none" before it ran), sent lists the labeled
\* and unlabeled deliveries the platform sends for the label changes, manage
\* records the calls of manage_reviewed_by_label, merged tells that the
\* handler merged the pull request.
Fetch(_labels, _statuses) ==
    [pr_labels |-> _labels, labels |-> _labels, statuses |-> _statuses,
     calls |-> <<>>, raised |-> FALSE, can_be_merged |-> "none",
     sent |-> <<>>, manage |-> <<>>, checks |-> <<>>, merged |-> FALSE,
     env |-> DefaultEnv, steps |-> <<>>]

Call(h, c) == [h EXCEPT !.calls = Append(@, c)]

\* A call made unless an earlier call of the handler raised.
Do(h, c) == IF h.raised THEN h ELSE Call(h, c)

\* pull_request.add_to_labels(label): the platform attaches the label, once.
add_to_labels(h, label) ==
    IF label \in Range(h.labels)
    THEN Call(h, <<"add_to_labels", label>>)
    ELSE [Call(h, <<"add_to_labels", label>>) EXCEPT
            !.labels = Append(@, label),
            !.sent = Append(@, <<"labeled", label>>)]

\* pull_request.remove_from_labels(label): the platform detaches the label;
\* it answers "not found" (GithubException) for a label the pull request
\* does not carry.
remove_from_labels(h, label) ==
    IF label \in Range(h.labels)
    THEN [Call(h, <<"remove_from_labels", label>>) EXCEPT
            !.labels = Without(@, label),
            !.sent = Append(@, <<"unlabeled", label>>)]
    ELSE [Call(h, <<"remove_from_labels", label>>) EXCEPT !.raised = TRUE]

\* The time stamp the platform gives the next status of the commit.
NextUpdatedAt(_statuses) ==
    IF _statuses = <<>> THEN 1
    ELSE 1 + CHOOSE t \in {_statuses[i].updated_at : i \in DOMAIN _statuses} :
                \A i \in DOMAIN _statuses : _statuses[i].updated_at <= t

\* last_commit.create_status(state, description, context)
create_status(h, _state, _context) ==
    IF h.raised THEN h
    ELSE [Call(h, <<"create_status", _context, _state>>) EXCEPT
            !.statuses = Append(@, [context |-> _context, state |-> _state,
                                    updated_at |-> NextUpdatedAt(@)])]

\* pull_request_labels_names() and label_exists_in_pull_request()
pull_request_labels_names(h) == h.pr_labels

label_exists_in_pull_request(h, label) ==
    \E i \in DOMAIN pull_request_labels_names(h) :
        pull_request_labels_names(h)[i] = label

\* _remove_label
_remove_label(h, label) ==
    IF h.raised THEN h
    ELSE IF label_exists_in_pull_request(h, label)
    THEN remove_from_labels(h, label)
    ELSE h

\* The longest label _add_label accepts.
LabelMaxLen == 49

\* _add_label as it would be without the test for a label the pull request
\* already carries.
_add_label_no_exists_test(h, label) ==
    LET _label == Strip(label)
    IN  IF h.raised THEN h
        ELSE IF Len(_label) > LabelMaxLen THEN h
        ELSE IF _label \in STATIC_LABELS_DICT THEN add_to_labels(h, _label)
        ELSE add_to_labels(Call(h, <<"repository_label", _label>>), _label)

\* _add_label as it would be with the length test off by one.
_add_label_rejects_49(h, label) ==
    LET _label == Strip(label)
    IN  IF h.raised THEN h
        ELSE IF Len(_label) >= LabelMaxLen THEN h
        ELSE IF label_exists_in_pull_request(h, _label) THEN h
        ELSE IF _label \in STATIC_LABELS_DICT THEN add_to_labels(h, _label)
        ELSE add_to_labels(Call(h, <<"repository_label", _label>>), _label)

\* _add_label; a label outside STATIC_LABELS_DICT is first edited or created
\* as a label of the repository.
_add_label(h, label) ==
    LET _label == Strip(label)
    IN  IF h.raised THEN h
        ELSE IF Len(_label) > LabelMaxLen THEN h
        ELSE IF label_exists_in_pull_request(h, _label) THEN h
        ELSE IF _label \in STATIC_LABELS_DICT THEN add_to_labels(h, _label)
        ELSE add_to_labels(Call(h, <<"repository_label", _label>>), _label)

set_merge_check_pending(h) == create_status(h, PENDING_STR, CAN_BE_MERGED_STR)

set_merge_check_success(h) == create_status(h, SUCCESS_STR, CAN_BE_MERGED_STR)

set_verify_check_pending(h) == create_status(h, PENDING_STR, VERIFIED_LABEL_STR)

set_verify_check_success(h) == create_status(h, SUCCESS_STR, VERIFIED_LABEL_STR)

-----------------------------------------------------------------------------
(* check_if_can_be_merged *)

\* _final_statuses: per context other than can-be-merged, the entry kept by
\* the loop over last_commit.get_statuses().
RECURSIVE final_statuses(_, _)
final_statuses(_statuses, _final) ==
    IF _statuses = <<>> THEN _final
    ELSE LET _status == Head(_statuses)
             _status_data == [updated_at |-> _status.updated_at,
                              state |-> _status.state]
         IN  IF _status.context = CAN_BE_MERGED_STR
             THEN final_statuses(Tail(_statuses), _final)
             ELSE IF _status.context \in DOMAIN _final
             THEN IF _status.updated_at > _final[_status.context].updated_at
                  THEN final_statuses(Tail(_statuses),
                          [_final EXCEPT ![_status.context] = _status_data])
                  ELSE final_statuses(Tail(_statuses), _final)
             ELSE final_statuses(Tail(_statuses),
                                 _final @@ (_status.context :> _status_data))

all_statuses_passed(_statuses) ==
    LET _final_statuses == final_statuses(_statuses, <<>>)
    IN  \A context \in DOMAIN _final_statuses :
            _final_statuses[context].state = SUCCESS_STR

all_check_runs_passed(_check_runs) ==
    \A i \in DOMAIN _check_runs : _check_runs[i] = SUCCESS_STR

\* The loop over _labels: FALSE at the first label that holds the
\* changes-requested prefix, TRUE at the first label that holds the approved
\* prefix and whose last "-" field is an approver, FALSE at the end.
RECURSIVE labels_loop(_, _)
labels_loop(_labels, _approvers) ==
    IF _labels = <<>> THEN FALSE
    ELSE LET _label == Head(_labels)
         IN  IF Contains(Lower(CHANGED_REQUESTED_BY_LABEL_PREFIX), Lower(_label))
             THEN FALSE
             ELSE IF Contains(Lower(APPROVED_BY_LABEL_PREFIX), Lower(_label))
                     /\ SplitLast(_label, "-") \in _approvers
             THEN TRUE
             ELSE labels_loop(Tail(_labels), _approvers)

\* The value _can_be_merged has when the function ends.
can_be_merged(_labels, _statuses, _check_runs, _mergeable_state, _approvers) ==
    /\ VERIFIED_LABEL_STR \in Range(_labels)
    /\ _mergeable_state # "behind"
    /\ all_check_runs_passed(_check_runs)
    /\ all_statuses_passed(_statuses)
    /\ HOLD_LABEL_STR \notin Range(_labels)
    /\ labels_loop(_labels, _approvers)

check_if_can_be_merged(h, _check_runs, _mergeable_state, _approvers) ==
    LET _can_be_merged ==
            can_be_merged(pull_request_labels_names(h), h.statuses,
                          _check_runs, _mergeable_state, _approvers)
        h1 == [h EXCEPT !.can_be_merged = _can_be_merged]
        h2 == IF _can_be_merged
              THEN set_merge_check_success(_add_label(h1, CAN_BE_MERGED_STR))
              ELSE set_merge_check_pending(_remove_label(h1, CAN_BE_MERGED_STR))
    IN  IF h.raised THEN h
        ELSE [h2 EXCEPT !.checks = Append(@,
                [can_be_merged |-> _can_be_merged,
                 completed |-> ~h2.raised,
                 post |-> h2.labels,
                 calls |-> SubSeq(h2.calls, Len(h.calls) + 1, Len(h2.calls))])]

-----------------------------------------------------------------------------
(* The record kept of a handler run *)

NoRun == [op |-> "none"]

RunRecord(_op, _args, h0, h) ==
    [op |-> _op, args |-> _args, pre |-> h0.labels, post |-> h.labels,
     calls |-> h.calls, raised |-> h.raised, can_be_merged |-> h.can_be_merged,
     statuses |-> h0.statuses, manage |-> h.manage, checks |-> h.checks,
     steps |-> h.steps, env |-> h0.env]

\* The bag b and the deliveries of the list sent.
RECURSIVE AddAll(_, _)
AddAll(b, _sent) ==
    IF _sent = <<>> THEN b
    ELSE AddAll(b (+) SetToBag({Head(_sent)}), Tail(_sent))

\* What a handler run that started from h0 and ended in h leaves behind:
\* the platform's labels and statuses, the deliveries the platform sends for
\* its label changes, and the record of the run.  _events are the pending
\* deliveries without the one the handler processed.
Finish(_op, _args, h0, h, _events, _approved) ==
    /\ labels' = h.labels
    /\ statuses' = h.statuses
    /\ merged' = (merged \/ h.merged)
    /\ events' = AddAll(_events, h.sent)
    /\ approved' = _approved
    /\ prev' = last
    /\ last' = RunRecord(_op, _args, h0, h)
    /\ UNCHANGED <<check_runs, mergeable_state, approvers, verified_job,
                   platform, author>>

\* The mutating label calls, and the status writes, among calls.
LabelCalls(calls) ==
    SelectSeq(calls, LAMBDA c : c[1] \in {"add_to_labels", "remove_from_labels",
                                          "repository_label"})

StatusCalls(calls) == SelectSeq(calls, LAMBDA c : c[1] = "create_status")

\* The workers of the server and a worker that processes nothing.
Workers == {1, 2}

Idle == [pc |-> "idle"]

NoWorker == [w \in Workers |-> Idle]

-----------------------------------------------------------------------------
(* SpecEval: the evaluator on drawn inputs *)

\* Users: the author, an approver, a reviewer who is no approver, and a
\* reviewer whose login ends in "-" and the approver's login.
Author == "dev"
Approver == "ann"
Reviewer == "bob"
HyphenUser == "joe-ann"

EvalLabels ==
    {VERIFIED_LABEL_STR, HOLD_LABEL_STR, CAN_BE_MERGED_STR,
     APPROVED_BY_LABEL_PREFIX \o Approver,
     APPROVED_BY_LABEL_PREFIX \o Reviewer,
     APPROVED_BY_LABEL_PREFIX \o HyphenUser,
     CHANGED_REQUESTED_BY_LABEL_PREFIX \o Reviewer}

St(_context, _state, _updated_at) ==
    [context |-> _context, state |-> _state, updated_at |-> _updated_at]

\* Status lists: none, one context, the merge context alone, and one
\* context reported twice, in both list orders.
EvalStatuses ==
    {<<>>,
     <<St("tox", SUCCESS_STR, 1)>>,
     <<St("tox", FAILURE_STR, 1)>>,
     <<St(CAN_BE_MERGED_STR, PENDING_STR, 1)>>,
     <<St("tox", FAILURE_STR, 1), St("tox", SUCCESS_STR, 2)>>,
     <<St("tox", SUCCESS_STR, 2), St("tox", FAILURE_STR, 1)>>,
     <<St("tox", SUCCESS_STR, 1), St("tox", PENDING_STR, 2)>>,
     <<St("tox", PENDING_STR, 2), St("tox", SUCCESS_STR, 1)>>}

EvalCheckRuns == {<<>>, <<SUCCESS_STR>>, <<SUCCESS_STR, FAILURE_STR>>}

EvalApprovers == {{Approver}, {Approver, HyphenUser}}

\* How many evaluator runs SpecEval makes on one input.
MaxRuns == 2

InitEval ==
    /\ labels \in OrderedSets(EvalLabels, MaxLabels)
    /\ statuses \in EvalStatuses
    /\ check_runs \in EvalCheckRuns
    /\ mergeable_state \in {"clean", "behind"}
    /\ approvers \in EvalApprovers
    /\ verified_job \in BOOLEAN
    /\ platform = "github"
    /\ author = Author
    /\ merged = FALSE
    /\ approved = FALSE
    /\ events = EmptyBag
    /\ delivered = 0
    /\ prev = NoRun
    /\ last = NoRun
    /\ workers = NoWorker

\* process_hook for an event that is none of issue_comment, pull_request,
\* push, pull_request_review, status, branch_protection_rule: fetch the pull
\* request and its last commit, run check_if_can_be_merged.
ProcessHookOther(_budget) ==
    /\ platform = "github"
    /\ delivered < _budget
    /\ LET h0 == Fetch(labels, statuses)
           h == check_if_can_be_merged(h0, check_runs, mergeable_state, approvers)
       IN  Finish("other", <<>>, h0, h, events, approved)
    /\ delivered' = delivered + 1
    /\ UNCHANGED workers

EvalRun == ProcessHookOther(MaxRuns)

NextEval == EvalRun

SpecEval == InitEval /\ [][NextEval]_vars

-----------------------------------------------------------------------------
(* Claims about check_if_can_be_merged (SpecEval) *)

\* The user a reviewer label names: the whole text after the prefix.
LabelUser(_label, _prefix) == SubSeq(_label, Len(_prefix) + 1, Len(_label))

HasChangesRequested(_labels) ==
    \E l \in Range(_labels) : StartsWith(l, CHANGED_REQUESTED_BY_LABEL_PREFIX)

HasApproverApproval(_labels, _approvers) ==
    \E l \in Range(_labels) :
        /\ StartsWith(l, APPROVED_BY_LABEL_PREFIX)
        /\ LabelUser(l, APPROVED_BY_LABEL_PREFIX) \in _approvers

\* The latest state of every status context other than can-be-merged is
\* success.
LatestStatusesPass(_statuses) ==
    \A i \in DOMAIN _statuses :
        (/\ _statuses[i].context # CAN_BE_MERGED_STR
         /\ \A j \in DOMAIN _statuses :
                _statuses[j].context = _statuses[i].context
                    => _statuses[j].updated_at <= _statuses[i].updated_at)
            => _statuses[i].state = SUCCESS_STR

\* The seven eligibility conditions.
Eligible(_labels, _statuses, _check_runs, _mergeable_state, _approvers, _verified_job) ==
    /\ (VERIFIED_LABEL_STR \in Range(_labels) \/ ~_verified_job)
    /\ _mergeable_state # "behind"
    /\ \A i \in DOMAIN _check_runs : _check_runs[i] = SUCCESS_STR
    /\ LatestStatusesPass(_statuses)
    /\ HOLD_LABEL_STR \notin Range(_labels)
    /\ ~HasChangesRequested(_labels)
    /\ HasApproverApproval(_labels, _approvers)

EvalRan == last.op = "other"

\* C1: check_if_can_be_merged computes 'mergeable' exactly when the seven
\* eligibility conditions hold, for every label list (in any order), check
\* runs, statuses, mergeable_state and approvers.
C1_MergeableIffEligible ==
    EvalRan =>
        (last.can_be_merged =
            Eligible(last.pre, last.statuses, check_runs, mergeable_state,
                     approvers, verified_job))

\* C2: when the label list holds a Changes-requested-By-* label, wherever it
\* stands, the run does not add can-be-merged, leaves the pull request
\* without it, and sets the merge status to pending.
C2_ChangesRequestedBlocks ==
    (EvalRan /\ HasChangesRequested(last.pre)) =>
        /\ <<"add_to_labels", CAN_BE_MERGED_STR>> \notin Range(last.calls)
        /\ CAN_BE_MERGED_STR \notin Range(last.post)
        /\ StatusCalls(last.calls)
              = << <<"create_status", CAN_BE_MERGED_STR, PENDING_STR>> >>

\* C3: the run adds can-be-merged (computes 'mergeable') only if some label
\* Approved-By-u is present whose u, the whole text after the prefix, is an
\* approver.
C3_OnlyApproverApproval ==
    (EvalRan /\ (last.can_be_merged = TRUE
                 \/ <<"add_to_labels", CAN_BE_MERGED_STR>> \in Range(last.calls)))
        => HasApproverApproval(last.pre, approvers)

TwoRuns == prev.op = "other" /\ last.op = "other"

\* C5 as stated: a second run on unchanged inputs issues no label mutation
\* and no status write.
C5_SecondRunNoMutation ==
    TwoRuns => (LabelCalls(last.calls) = <<>> /\ StatusCalls(last.calls) = <<>>)

\* C5 amended: a second run on unchanged inputs issues no label mutation
\* and leaves the labels as they are; it writes the can-be-merged status
\* once more, with the state the first run wrote.
C5_SecondRunRepeatsStatusOnly ==
    TwoRuns =>
        /\ LabelCalls(last.calls) = <<>>
        /\ last.post = last.pre
        /\ ~last.raised
        /\ last.can_be_merged = prev.can_be_merged
        /\ Len(StatusCalls(last.calls)) = 1
        /\ StatusCalls(last.calls) = StatusCalls(prev.calls)

\* A second run after a first run that added can-be-merged.
C5_Witness ==
    /\ TwoRuns
    /\ <<"add_to_labels", CAN_BE_MERGED_STR>> \in Range(prev.calls)
    /\ last.can_be_merged = TRUE

-----------------------------------------------------------------------------
(* More of Python's str *)

\* The index of the first sep in s, Len(s) + 1 when there is none.
FirstIndex(s, sep) ==
    IF Contains(sep, s)
    THEN CHOOSE k \in 1..Len(s) :
            /\ SubSeq(s, k, k) = sep
            /\ \A j \in 1..(k - 1) : SubSeq(s, j, j) # sep
    ELSE Len(s) + 1

\* s.split(sep), sep one character
RECURSIVE Split(_, _)
Split(s, sep) ==
    IF ~Contains(sep, s) THEN <<s>>
    ELSE LET i == FirstIndex(s, sep)
         IN  <<SubSeq(s, 1, i - 1)>> \o Split(SubSeq(s, i + 1, Len(s)), sep)

\* s.split(sep, 1)
SplitOnce(s, sep) ==
    IF ~Contains(sep, s) THEN <<s>>
    ELSE LET i == FirstIndex(s, sep)
         IN  <<SubSeq(s, 1, i - 1), SubSeq(s, i + 1, Len(s))>>

\* s.rstrip()
RECURSIVE RStrip(_)
RStrip(s) ==
    IF Len(s) = 0 THEN s
    ELSE IF IsSpace(SubSeq(s, Len(s), Len(s))) THEN RStrip(SubSeq(s, 1, Len(s) - 1))
    ELSE s

-----------------------------------------------------------------------------
(* Review labels *)

\* The body of manage_reviewed_by_label once label_prefix and
\* label_to_remove ("" for None) are set.
reviewer_label_action(h, label_prefix, label_to_remove, action, reviewed_user) ==
    LET reviewer_label == label_prefix \o reviewed_user
    IN  IF action = ADD_STR
        THEN LET h1 == _add_label(h, reviewer_label)
             IN  IF label_to_remove # "" THEN _remove_label(h1, label_to_remove)
                 ELSE h1
        ELSE IF action = DELETE_STR THEN _remove_label(h, reviewer_label)
        ELSE h

\* manage_reviewed_by_label as it would be without the test for the pull
\* request's owner.
manage_reviewed_by_label_no_owner_test(h, review_state, action, reviewed_user, pr_owner) ==
    LET pull_request_labels == Range(pull_request_labels_names(h))
        _approved == APPROVED_BY_LABEL_PREFIX \o reviewed_user
        _changes == CHANGED_REQUESTED_BY_LABEL_PREFIX \o reviewed_user
    IN  IF review_state \in {"approved", LGTM_STR}
        THEN reviewer_label_action(h, APPROVED_BY_LABEL_PREFIX,
                IF _changes \in pull_request_labels THEN _changes ELSE "",
                action, reviewed_user)
        ELSE IF review_state = "changes_requested"
        THEN reviewer_label_action(h, CHANGED_REQUESTED_BY_LABEL_PREFIX,
                IF _approved \in pull_request_labels THEN _approved ELSE "",
                action, reviewed_user)
        ELSE IF review_state = "commented"
        THEN reviewer_label_action(h, COMMENTED_BY_LABEL_PREFIX, "",
                action, reviewed_user)
        ELSE h

\* manage_reviewed_by_label; pr_owner is the login of the author in the
\* hook data.
manage_reviewed_by_label_body(h, review_state, action, reviewed_user, pr_owner) ==
    LET pull_request_labels == Range(pull_request_labels_names(h))
        _approved == APPROVED_BY_LABEL_PREFIX \o reviewed_user
        _changes == CHANGED_REQUESTED_BY_LABEL_PREFIX \o reviewed_user
    IN  IF review_state \in {"approved", LGTM_STR}
        THEN IF pr_owner = reviewed_user THEN h
             ELSE reviewer_label_action(h, APPROVED_BY_LABEL_PREFIX,
                    IF _changes \in pull_request_labels THEN _changes ELSE "",
                    action, reviewed_user)
        ELSE IF review_state = "changes_requested"
        THEN reviewer_label_action(h, CHANGED_REQUESTED_BY_LABEL_PREFIX,
                IF _approved \in pull_request_labels THEN _approved ELSE "",
                action, reviewed_user)
        ELSE IF review_state = "commented"
        THEN reviewer_label_action(h, COMMENTED_BY_LABEL_PREFIX, "",
                action, reviewed_user)
        ELSE h

\* manage_reviewed_by_label, with the record of the call: its arguments, the
\* platform's labels before and after it, the calls it made.
manage_reviewed_by_label(h, review_state, action, reviewed_user, pr_owner) ==
    IF h.raised THEN h
    ELSE LET h1 == manage_reviewed_by_label_body(h, review_state, action,
                                                 reviewed_user, pr_owner)
         IN  [h1 EXCEPT !.manage = Append(@,
                [review_state |-> review_state, action |-> action,
                 reviewed_user |-> reviewed_user, pr_owner |-> pr_owner,
                 pre |-> h.labels, post |-> h1.labels,
                 calls |-> SubSeq(h1.calls, Len(h.calls) + 1, Len(h1.calls))])]

-----------------------------------------------------------------------------
(* Comment commands *)

\* label_by_user_comment
label_by_user_comment(h, user_request, remove, reviewed_user, pr_owner) ==
    IF h.raised THEN h
    ELSE IF ~\E label_name \in USER_LABELS_DICT : StartsWith(user_request, label_name)
    THEN Call(h, <<"create_issue_comment", "not a predefined label", user_request>>)
    ELSE LET h1 == Call(h, <<"create_reaction">>)
             h2 == IF user_request = LGTM_STR
                   THEN manage_reviewed_by_label(h1, LGTM_STR,
                            IF remove THEN DELETE_STR ELSE ADD_STR,
                            reviewed_user, pr_owner)
                   ELSE h1
         IN  IF remove THEN _remove_label(h2, user_request)
             ELSE _add_label(h2, user_request)

-----------------------------------------------------------------------------
(* Tests, builds and cherry-picks: the commands that run outside the platform *)

BUILD_CONTAINER_STR == "build-container"
PYTHON_MODULE_INSTALL_STR == "python-module-install"
CHERRY_PICK_LABEL_PREFIX == "cherry-pick-"
CHERRY_PICKED_LABEL_PREFIX == "cherry-picked"

\* str.split(): the words of s.
RECURSIVE Words(_)
Words(s) ==
    LET t == Strip(s)
        i == IF \E k \in 1..Len(t) : IsSpace(SubSeq(t, k, k))
             THEN CHOOSE k \in 1..Len(t) :
                    /\ IsSpace(SubSeq(t, k, k))
                    /\ \A j \in 1..(k - 1) : ~IsSpace(SubSeq(t, j, j))
             ELSE Len(t) + 1
    IN  IF Len(t) = 0 THEN <<>>
        ELSE <<SubSeq(t, 1, i - 1)>> \o Words(SubSeq(t, i + 1, Len(t)))

\* s.replace(old, new)
RECURSIVE Replace(_, _, _)
Replace(s, old, new) ==
    IF Len(s) < Len(old) \/ Len(old) = 0 THEN s
    ELSE IF StartsWith(s, old)
    THEN new \o Replace(SubSeq(s, Len(old) + 1, Len(s)), old, new)
    ELSE SubSeq(s, 1, 1) \o Replace(SubSeq(s, 2, Len(s)), old, new)

\* " ".join(l)
RECURSIVE Join(_)
Join(l) ==
    IF l = <<>> THEN ""
    ELSE IF Len(l) = 1 THEN l[1]
    ELSE l[1] \o " " \o Join(Tail(l))

\* The elements of a set in some order.
RECURSIVE SetToSeq(_)
SetToSeq(S) ==
    IF S = {} THEN <<>>
    ELSE LET x == CHOOSE y \in S : TRUE IN <<x>> \o SetToSeq(S \ {x})

\* The order in which a loop of the handler meets the elements of the
\* Python set S: the order the run's hash seed gives, h.env.set_order.
IterateSet(h, S) ==
    LET known == SelectSeq(h.env.set_order, LAMBDA b : b \in S)
    IN  known \o SetToSeq(S \ Range(known))

\* A command run by the handler outside the platform.
Step(h, s) == [h EXCEPT !.steps = Append(@, s)]

\* An exception leaves the handler.
Raise(h) == [h EXCEPT !.raised = TRUE]

\* _clone_repository up to its yield: the result of git clone is not
\* looked at, and change_directory raises when the clone is not there.
_clone_repository(h) ==
    IF h.raised THEN h
    ELSE IF h.env.clone THEN Step(h, <<"git clone">>)
    ELSE Raise(Step(h, <<"git clone">>))

\* _checkout_pull_request
_checkout_pull_request(h) == Step(h, <<"git checkout pr">>)

set_run_tox_check_pending(h) ==
    IF ~h.env.tox_enabled THEN h ELSE create_status(h, PENDING_STR, "tox")

set_run_tox_check_failure(h) == create_status(h, FAILURE_STR, "tox")

set_run_tox_check_success(h) == create_status(h, SUCCESS_STR, "tox")

set_container_build_pending(h) ==
    IF ~h.env.build_and_push_container THEN h
    ELSE create_status(h, PENDING_STR, BUILD_CONTAINER_STR)

set_container_build_success(h) == create_status(h, SUCCESS_STR, BUILD_CONTAINER_STR)

set_container_build_failure(h) == create_status(h, FAILURE_STR, BUILD_CONTAINER_STR)

set_python_module_install_pending(h) ==
    IF ~h.env.pypi THEN h
    ELSE create_status(h, PENDING_STR, PYTHON_MODULE_INSTALL_STR)

set_python_module_install_success(h) == create_status(h, SUCCESS_STR, PYTHON_MODULE_INSTALL_STR)

set_python_module_install_failure(h) == create_status(h, FAILURE_STR, PYTHON_MODULE_INSTALL_STR)

\* run_tox
run_tox(h) ==
    IF h.raised \/ ~h.env.tox_enabled THEN h
    ELSE LET h1 == _clone_repository(set_run_tox_check_pending(h))
             h2 == _checkout_pull_request(h1)
         IN  IF h1.raised THEN h1
             ELSE IF ~h.env.checkout THEN h2
             ELSE IF h.env.job THEN set_run_tox_check_success(Step(h2, <<"tox">>))
             ELSE set_run_tox_check_failure(Step(h2, <<"tox">>))

\* The body of the with statement of _build_and_push_container: podman push
\* and the comment that tells of it.
push_container(h) ==
    IF h.raised THEN h
    ELSE IF h.env.push
    THEN Call(Step(h, <<"podman push">>), <<"create_issue_comment", "Container pushed">>)
    ELSE Step(h, <<"podman push">>)

\* The body of a with statement over _build_container: nothing for the
\* retest command, the push for _build_and_push_container.
build_body(h, body) == IF body = "push" THEN push_container(h) ELSE h

\* with self._build_container(set_check): body.  The generator yields once
\* more after the yield of a failed checkout, and not at all after a failed
\* build without set_check; contextmanager raises RuntimeError for both.
_build_container(h, set_check, body) ==
    IF h.raised THEN h
    ELSE IF ~h.env.build_and_push_container THEN build_body(h, body)
    ELSE LET h1 == _clone_repository(h)
             h2 == _checkout_pull_request(h1)
             yielded == ~h.env.checkout
             h3 == IF yielded THEN build_body(h2, body) ELSE h2
             h4 == Step(h3, <<"podman build">>)
             h5 == IF ~set_check THEN h4
                   ELSE IF h.env.job THEN set_container_build_success(h4)
                   ELSE set_container_build_failure(h4)
         IN  IF h1.raised THEN h1
             ELSE IF h3.raised THEN h3
             ELSE IF h.env.job \/ set_check
             THEN IF yielded THEN Raise(h5) ELSE build_body(h5, body)
             ELSE IF yielded THEN h5 ELSE Raise(h5)

\* _build_and_push_container
_build_and_push_container(h) ==
    IF h.raised \/ ~h.env.build_and_push_container THEN h
    ELSE _build_container(h, FALSE, "push")

\* _install_python_module
_install_python_module(h) ==
    IF h.raised \/ ~h.env.pypi THEN h
    ELSE LET h1 == _clone_repository(set_python_module_install_pending(h))
             h2 == _checkout_pull_request(h1)
         IN  IF h1.raised THEN h1
             ELSE IF ~h.env.checkout THEN h2
             ELSE IF h.env.job
             THEN set_python_module_install_success(Step(h2, <<"pipx install">>))
             ELSE set_python_module_install_failure(Step(h2, <<"pipx install">>))

\* The steps of _cherry_pick, in the order it runs them.
CherryPickSteps == <<"git cherry-pick", "git push", "create pull request">>

\* What the run has in store for the cherry-pick to source_branch: "none"
\* when every step succeeds, else the step that fails.  Whether run_command
\* returns the failure or raises, _cherry_pick answers with the same comment
\* and the same result.
CherryPickOutcome(h, source_branch) ==
    IF source_branch \in DOMAIN h.env.git THEN h.env.git[source_branch]
    ELSE "none"

\* _issue_from_err as it would be with a comment that names the branch
\* but neither the commit nor the commands.
_issue_from_err_without_recipe(h, _commit_hash, _source_branch, source_branch) ==
    Call(h, <<"create_issue_comment",
              "**Manual cherry-pick is needed**\nCherry pick failed to "
                \o _source_branch \o ":\n">>)

\* _issue_from_err of _cherry_pick: the comment with the recipe; the
\* backquotes of the text are written as apostrophes.
_issue_from_err(h, _commit_hash, _source_branch, source_branch) ==
    LET local_branch_name == h.env.head_ref \o "-" \o source_branch
    IN  Call(h, <<"create_issue_comment",
            "**Manual cherry-pick is needed**\nCherry pick failed for "
                \o _commit_hash \o " to " \o _source_branch \o ":\n"
                \o "To cherry-pick run:\n"
                \o "'''\n"
                \o "git checkout " \o _source_branch \o "\n"
                \o "git pull origin " \o _source_branch \o "\n"
                \o "git checkout -b " \o local_branch_name \o "\n"
                \o "git cherry-pick " \o _commit_hash \o "\n"
                \o "git push origin " \o local_branch_name \o "\n"
                \o "'''">>)

\* The steps of _cherry_pick that are run when the step failed fails
\* ("none": all of them).
StepsUpTo(h, source_branch, failed) ==
    LET _last == IF failed = "none" THEN Len(CherryPickSteps)
                 ELSE CHOOSE i \in DOMAIN CherryPickSteps : CherryPickSteps[i] = failed
    IN  [h EXCEPT !.steps = @ \o [i \in 1.._last |->
                                      <<CherryPickSteps[i], source_branch>>]]

\* _cherry_pick: the handler after it and what it returns.
_cherry_pick(h, source_branch) ==
    LET commit_hash == h.env.merge_commit_sha
        outcome == CherryPickOutcome(h, source_branch)
        h1 == StepsUpTo(h, source_branch, outcome)
    IN  IF outcome = "none" THEN [h |-> h1, result |-> TRUE]
        ELSE [h |-> _issue_from_err(h1, commit_hash, source_branch, source_branch),
              result |-> FALSE]

\* _checkout_new_branch: the results of its commands are not looked at.
_checkout_new_branch(h, source_branch) == Step(h, <<"git checkout -b", source_branch>>)

\* is_branch_exists: the branch, or None when get_branch raises.
is_branch_exists(h, branch) == branch \in h.env.branches

\* cherry_pick as it would be if a failed _cherry_pick raised.
cherry_pick_raises_on_failure(h, target_branch) ==
    IF h.raised THEN h
    ELSE IF ~is_branch_exists(h, target_branch)
    THEN Call(h, <<"create_issue_comment",
                   "cherry-pick failed: " \o target_branch \o " does not exists">>)
    ELSE LET h1 == _clone_repository(h)
             r == _cherry_pick(_checkout_new_branch(h1, target_branch), target_branch)
             h2 == Step(r.h, <<"_cherry_pick returned", target_branch, r.result>>)
         IN  IF h1.raised THEN h1
             ELSE IF r.result
             THEN Call(h2, <<"create_issue_comment",
                             "Cherry-picked PR " \o h.env.title \o " into " \o target_branch>>)
             ELSE Raise(r.h)

\* cherry_pick; what _cherry_pick returned is noted among the steps.
cherry_pick(h, target_branch) ==
    IF h.raised THEN h
    ELSE IF ~is_branch_exists(h, target_branch)
    THEN Call(h, <<"create_issue_comment",
                   "cherry-pick failed: " \o target_branch \o " does not exists">>)
    ELSE LET h1 == _clone_repository(h)
             r == _cherry_pick(_checkout_new_branch(h1, target_branch), target_branch)
             h2 == Step(r.h, <<"_cherry_pick returned", target_branch, r.result>>)
         IN  IF h1.raised THEN h1
             ELSE IF r.result
             THEN Call(h2, <<"create_issue_comment",
                             "Cherry-picked PR " \o h.env.title \o " into " \o target_branch>>)
             ELSE h2

\* A loop that calls cherry_pick for each branch of the list.
RECURSIVE cherry_pick_each(_, _)
cherry_pick_each(h, _branches) ==
    IF _branches = <<>> THEN h
    ELSE cherry_pick_each(cherry_pick(h, Head(_branches)), Tail(_branches))

\* A loop that calls _add_label for each label of the list.
RECURSIVE _add_label_each(_, _)
_add_label_each(h, _labels) ==
    IF _labels = <<>> THEN h
    ELSE _add_label_each(_add_label(h, Head(_labels)), Tail(_labels))

\* The cherry-pick command of user_commands.
cherry_pick_command(h, _args, reviewed_user) ==
    LET h1 == Call(h, <<"create_reaction">>)
        _target_branches == Words(_args)
        _non_exits == SelectSeq(_target_branches, LAMBDA b : b \notin h.env.branches)
        _exits_target_branches == IterateSet(h, Range(_target_branches))
        h2 == IF _non_exits # <<>>
              THEN Call(h1, <<"create_issue_comment", "Target branch does not exist",
                              _non_exits>>)
              ELSE h1
        cp_labels == [i \in DOMAIN _exits_target_branches |->
                          CHERRY_PICK_LABEL_PREFIX \o _exits_target_branches[i]]
    IN  IF _exits_target_branches = <<>> THEN h2
        ELSE IF ~h.env.is_merged
        THEN _add_label_each(
                Call(h2, <<"create_issue_comment", "Cherry-pick requested",
                           Join(cp_labels), reviewed_user>>),
                cp_labels)
        ELSE cherry_pick_each(h2, _exits_target_branches)

\* The retest command of user_commands; an argument other than the three it
\* knows falls through the chain of tests.
retest_command(h, _args) ==
    IF _args = "tox"
    THEN IF ~h.env.tox_enabled
         THEN Call(h, <<"create_issue_comment", "Tox is not enabled.">>)
         ELSE run_tox(set_run_tox_check_pending(Call(h, <<"create_reaction">>)))
    ELSE IF _args = "build-container"
    THEN IF h.env.build_and_push_container
         THEN _build_container(
                set_container_build_pending(Call(h, <<"create_reaction">>)),
                TRUE, "pass")
         ELSE Call(h, <<"create_issue_comment", "No build-container configured">>)
    ELSE IF _args = "python-module-install"
    THEN IF ~h.env.pypi
         THEN Call(h, <<"create_issue_comment", "No pypi configured">>)
         ELSE _install_python_module(
                set_python_module_install_pending(Call(h, <<"create_reaction">>)))
    ELSE h

\* The build-and-push-container command of user_commands.
build_and_push_container_command(h) ==
    IF h.env.build_and_push_container
    THEN _build_and_push_container(Call(h, <<"create_reaction">>))
    ELSE Call(h, <<"create_issue_comment", "No build-and-push-container configured">>)

\* needs_rebase: each pull request of the repository is looked at, and the
\* label is set on the pull request of the handler.
RECURSIVE needs_rebase_each(_, _)
needs_rebase_each(h, _pulls) ==
    IF _pulls = <<>> \/ h.raised THEN h
    ELSE LET merge_state == Head(_pulls).mergeable_state
         IN  needs_rebase_each(
                IF merge_state = "behind"
                THEN _add_label(Step(h, <<"mergeable_state", merge_state>>),
                                NEEDS_REBASE_LABEL_STR)
                ELSE _remove_label(Step(h, <<"mergeable_state", merge_state>>),
                                   NEEDS_REBASE_LABEL_STR),
                Tail(_pulls))

needs_rebase(h) ==
    IF h.raised THEN h
    ELSE needs_rebase_each(Step(h, <<"get_pulls">>), h.env.open_pulls)

\* close_issue_for_merged_or_closed_pr
close_issue_for_merged_or_closed_pr(h, hook_action) ==
    IF h.env.issue
    THEN Call(Call(h, <<"issue_create_comment", hook_action>>), <<"issue_edit", "closed">>)
    ELSE h

\* The loop of the closed branch over the labels of the pull request.
RECURSIVE cherry_pick_labels(_, _)
cherry_pick_labels(h, _labels) ==
    IF _labels = <<>> THEN h
    ELSE cherry_pick_labels(
            IF StartsWith(Head(_labels), CHERRY_PICK_LABEL_PREFIX)
            THEN cherry_pick(h, Replace(Head(_labels), CHERRY_PICK_LABEL_PREFIX, ""))
            ELSE h,
            Tail(_labels))

\* process_pull_request_webhook_data for the action closed, from the fetched
\* pull request on; _merged is the merged field of the delivery.
process_pull_request_closed(h, _merged) ==
    LET h1 == close_issue_for_merged_or_closed_pr(h, "closed")
    IN  IF ~_merged THEN h1
        ELSE needs_rebase(cherry_pick_labels(_build_and_push_container(h1),
                                             h.pr_labels))

\* The head of user_commands as it would be with command.split(" "): the
\* argument is the second word only.
parse_command_split_all(command) ==
    LET command_and_args == Split(command, " ")
        _args == IF Len(command_and_args) > 1 THEN command_and_args[2] ELSE ""
    IN  [_command |-> command_and_args[1], _args |-> _args,
         remove |-> (Len(command_and_args) > 1 /\ _args = "cancel")]

\* The head of user_commands: the command, its argument and remove.
parse_command(command) ==
    LET command_and_args == SplitOnce(command, " ")
        _args == IF Len(command_and_args) > 1 THEN command_and_args[2] ELSE ""
    IN  [_command |-> command_and_args[1], _args |-> _args,
         remove |-> (Len(command_and_args) > 1 /\ _args = "cancel")]

\* user_commands
user_commands(h, command, reviewed_user, pr_owner) ==
    LET _command == parse_command(command)._command
        _args == parse_command(command)._args
        remove == parse_command(command).remove
    IN  IF h.raised THEN h
        ELSE IF Contains("sonarsource.github.io", command) THEN h
        ELSE IF _command \in {"retest", "cherry-pick"}
        THEN IF _args = ""
             THEN Call(h, <<"create_issue_comment", "requires an argument", _command>>)
             ELSE IF _command = "cherry-pick"
             THEN cherry_pick_command(h, _args, reviewed_user)
             ELSE retest_command(h, _args)
        ELSE IF _command = "build-and-push-container"
        THEN build_and_push_container_command(h)
        ELSE IF _command = WIP_STR
        THEN LET h1 == Call(h, <<"create_reaction">>)
             IN  IF remove
                 THEN Do(_remove_label(h1, WIP_STR), <<"edit_title", "remove WIP:">>)
                 ELSE Do(_add_label(h1, WIP_STR), <<"edit_title", "add WIP:">>)
        ELSE label_by_user_comment(h, _command, remove, reviewed_user, pr_owner)

\* GitHubApi.welcome_msg, with the labels of USER_LABELS_DICT filled in; the
\* backquotes of the text are written as apostrophes.
welcome_msg ==
    "\n"
    \o "Report bugs in [Issues](https://github.com/myakove/github-webhoo"
    \o "k-server/issues)\n"
    \o "\n"
    \o "The following are automatically added:\n"
    \o " * Add reviewers from OWNER file (in the root of the repository)"
    \o " under reviewers section.\n"
    \o " * Set PR size label.\n"
    \o " * New issue is created for the PR. (Closed when PR is merged/cl"
    \o "osed)\n"
    \o " * Run [pre-commit](https://pre-commit.ci/) if '.pre-commit-conf"
    \o "ig.yaml' exists in the repo.\n"
    \o "\n"
    \o "Available user actions:\n"
    \o " * To mark PR as WIP comment '/wip' to the PR, To remove it from"
    \o " the PR comment '/wip cancel' to the PR.\n"
    \o " * To block merging of PR comment '/hold', To un-block merging o"
    \o "f PR comment '/hold cancel'.\n"
    \o " * To mark PR as verified comment '/verified' to the PR, to un-v"
    \o "erify comment '/verified cancel' to the PR.\n"
    \o "        verified label removed on each new commit push.\n"
    \o " * To cherry pick a merged PR comment '/cherry-pick <target bran"
    \o "ch to cherry-pick to>' in the PR.\n"
    \o "    * Multiple target branches can be cherry-picked, separated b"
    \o "y spaces. ('/cherry-pick branch1 branch2')\n"
    \o "    * Cherry-pick will be started when PR is merged\n"
    \o " * To re-run tox comment '/retest tox' in the PR.\n"
    \o " * To re-run build-container command '/retest build-container' i"
    \o "n the PR.\n"
    \o " * To re-run python-module-install command '/retest python-modul"
    \o "e-install' in the PR.\n"
    \o " * To build and push container image command '/build-and-push-co"
    \o "ntainer' in the PR (tag will be the PR number).\n"
    \o " * To add a label by comment use '/<label name>', to remove, use"
    \o " '/<label name> cancel'\n"
    \o "<details>\n"
    \o "<summary>Supported labels</summary>\n"
    \o "\n"
    \o " * hold\n"
    \o " * verified\n"
    \o " * wip\n"
    \o " * lgtm\n"
    \o "\n"
    \o "</details>\n"
    \o "    "

\* The loop over _user_commands.
RECURSIVE run_user_commands(_, _, _, _)
run_user_commands(h, _user_commands, user_login, pr_owner) ==
    IF _user_commands = <<>> THEN h
    ELSE run_user_commands(
            user_commands(h, Head(_user_commands), user_login, pr_owner),
            Tail(_user_commands), user_login, pr_owner)

\* The commands process_comment_webhook_data finds in the body of a comment.
comment_commands(body) ==
    LET striped_body == Strip(body)
    IN  SelectSeq(IF StartsWith(striped_body, "/")
                  THEN Split(striped_body, "/") ELSE <<>>,
                  LAMBDA x : x # "")

\* process_comment_webhook_data, from the fetched pull request on.
process_comment_webhook_data(h, hook_action, body, user_login, pr_owner, _check_runs, _mergeable_state, _approvers) ==
    LET _user_commands == comment_commands(body)
    IN  IF hook_action \in {"action", "deleted"} THEN h
        ELSE IF body = welcome_msg THEN h
        ELSE check_if_can_be_merged(
                run_user_commands(h, _user_commands, user_login, pr_owner),
                _check_runs, _mergeable_state, _approvers)

\* A review handler that returns after an unsupported review state without
\* evaluating the pull request.
process_pull_request_review_returns_on_unsupported(h, hook_action, review_state, user_login, pr_owner, _check_runs, _mergeable_state, _approvers) ==
    LET h1 == IF hook_action = "submitted"
              THEN manage_reviewed_by_label(h, review_state, ADD_STR, user_login,
                                            pr_owner)
              ELSE h
    IN  IF review_state \in {"approved", LGTM_STR, "changes_requested", "commented"}
        THEN check_if_can_be_merged(h1, _check_runs, _mergeable_state, _approvers)
        ELSE h1

\* process_pull_request_review_webhook_data, from the fetched pull request on.
process_pull_request_review_webhook_data(h, hook_action, review_state, user_login, pr_owner, _check_runs, _mergeable_state, _approvers) ==
    LET h1 == IF hook_action = "submitted"
              THEN manage_reviewed_by_label(h, review_state, ADD_STR, user_login,
                                            pr_owner)
              ELSE h
    IN  check_if_can_be_merged(h1, _check_runs, _mergeable_state, _approvers)

\* The login of the server's own token (self.api_user).
ApiUser == "webhook-bot"

\* A labeled handler that answers the attachment of can-be-merged by
\* detaching the label and its detachment by attaching it.
process_labeled_toggles_can_be_merged(h, hook_action, label_name, parent_committer, _verified_job, _check_runs, _mergeable_state, _approvers) ==
    IF Lower(label_name) # CAN_BE_MERGED_STR
    THEN check_if_can_be_merged(h, _check_runs, _mergeable_state, _approvers)
    ELSE IF hook_action = "labeled" THEN _remove_label(h, CAN_BE_MERGED_STR)
    ELSE _add_label(h, CAN_BE_MERGED_STR)

\* process_labeled as it would be without the test of the author.
process_labeled_no_committer_test(h, hook_action, label_name, parent_committer, _verified_job, _check_runs, _mergeable_state, _approvers) ==
    LET labeled == Lower(label_name)
        h1 == IF _verified_job /\ labeled = VERIFIED_LABEL_STR
              THEN IF hook_action = "labeled" THEN set_verify_check_success(h)
                   ELSE set_verify_check_pending(h)
              ELSE h
    IN  IF hook_action = "labeled" /\ labeled = CAN_BE_MERGED_STR
        THEN [Call(Call(h, <<"create_issue_comment", "merged automatically">>),
                   <<"merge">>) EXCEPT !.merged = TRUE]
        ELSE IF \/ CAN_BE_MERGED_STR \notin Range(pull_request_labels_names(h))
                \/ labeled # CAN_BE_MERGED_STR
        THEN check_if_can_be_merged(h1, _check_runs, _mergeable_state, _approvers)
        ELSE h1

\* process_labeled as it would be if it skipped check_if_can_be_merged for
\* every delivery of can-be-merged.
process_labeled_skips_can_be_merged(h, hook_action, label_name, parent_committer, _verified_job, _check_runs, _mergeable_state, _approvers) ==
    LET labeled == Lower(label_name)
        h1 == IF _verified_job /\ labeled = VERIFIED_LABEL_STR
              THEN IF hook_action = "labeled" THEN set_verify_check_success(h)
                   ELSE set_verify_check_pending(h)
              ELSE h
    IN  IF /\ hook_action = "labeled"
           /\ labeled = CAN_BE_MERGED_STR
           /\ parent_committer \in {ApiUser, "pre-commit-ci[bot]"}
        THEN [Call(Call(h, <<"create_issue_comment", "merged automatically">>),
                   <<"merge">>) EXCEPT !.merged = TRUE]
        ELSE IF labeled # CAN_BE_MERGED_STR
        THEN check_if_can_be_merged(h1, _check_runs, _mergeable_state, _approvers)
        ELSE h1

\* process_pull_request_webhook_data for the actions labeled and unlabeled,
\* from the fetched pull request on.
process_labeled(h, hook_action, label_name, parent_committer, _verified_job, _check_runs, _mergeable_state, _approvers) ==
    LET labeled == Lower(label_name)
        h1 == IF _verified_job /\ labeled = VERIFIED_LABEL_STR
              THEN IF hook_action = "labeled" THEN set_verify_check_success(h)
                   ELSE set_verify_check_pending(h)
              ELSE h
    IN  IF /\ hook_action = "labeled"
           /\ labeled = CAN_BE_MERGED_STR
           /\ parent_committer \in {ApiUser, "pre-commit-ci[bot]"}
        THEN [Call(Call(h, <<"create_issue_comment", "merged automatically">>),
                   <<"merge">>) EXCEPT !.merged = TRUE]
        ELSE IF \/ CAN_BE_MERGED_STR \notin Range(pull_request_labels_names(h))
                \/ labeled # CAN_BE_MERGED_STR
        THEN check_if_can_be_merged(h1, _check_runs, _mergeable_state, _approvers)
        ELSE h1

-----------------------------------------------------------------------------
(* GitLab: comments on a merge request *)

\* The merge request fetched by get_mr_data(): pr_labels are its labels as
\* fetched, approved_attr its approved attribute as fetched; labels and
\* approved are the platform's.
GitLabFetch(_labels, _approved) ==
    [approved_attr |-> _approved, approved |-> _approved] @@ Fetch(_labels, <<>>)

\* update_merge_request with add_labels or remove_labels
update_merge_request(h, _attribute, _labels) ==
    LET _label == _labels[1]
    IN  IF _attribute = "add_labels"
        THEN [Call(h, <<"add_labels", _label>>) EXCEPT
                !.labels = IF _label \in Range(@) THEN @ ELSE Append(@, _label)]
        ELSE [Call(h, <<"remove_labels", _label>>) EXCEPT
                !.labels = Without(@, _label)]

\* approved_by_label
approved_by_label(_username, _approvers) ==
    (IF _username \in _approvers THEN "Approved" ELSE "Reviewed")
        \o "-By-" \o _username

\* add_remove_user_approve_label
add_remove_user_approve_label(h, action, _username, _approvers) ==
    IF action = "add"
    THEN update_merge_request(h, "add_labels",
                              <<approved_by_label(_username, _approvers)>>)
    ELSE update_merge_request(h, "remove_labels",
                              <<approved_by_label(_username, _approvers)>>)

\* A label_by_user_comment whose removal of lgtm takes the label away and
\* leaves the approval recorded.
gitlab_label_by_user_comment_keeps_approval(h, user_request, _username, _approvers) ==
    LET _label == user_request[2]
        _is_lgtm == Contains(LGTM_STR, Lower(_label))
        _has_label == approved_by_label(_username, _approvers) \in Range(h.pr_labels)
    IN  IF user_request[1] = "-"
        THEN IF _is_lgtm
             THEN IF _has_label
                  THEN add_remove_user_approve_label(h, "remove", _username, _approvers)
                  ELSE h
             ELSE update_merge_request(h, "remove_labels", <<_label>>)
        ELSE IF _is_lgtm
             THEN IF ~_has_label
                  THEN [Call(add_remove_user_approve_label(h, "add", _username,
                                                           _approvers),
                             <<"approve">>) EXCEPT !.approved = TRUE]
                  ELSE h
             ELSE update_merge_request(h, "add_labels", <<_label>>)

\* GitLabApi.label_by_user_comment; user_request is a match of the pattern,
\* the pair of its two groups.
gitlab_label_by_user_comment(h, user_request, _username, _approvers) ==
    LET _label == user_request[2]
        _is_lgtm == Contains(LGTM_STR, Lower(_label))
        _has_label == approved_by_label(_username, _approvers) \in Range(h.pr_labels)
    IN  IF user_request[1] = "-"
        THEN IF _is_lgtm
             THEN IF _has_label
                  THEN LET h1 == add_remove_user_approve_label(h, "remove",
                                        _username, _approvers)
                       IN  IF h.approved_attr
                           THEN [Call(h1, <<"unapprove">>) EXCEPT !.approved = FALSE]
                           ELSE h1
                  ELSE h
             ELSE update_merge_request(h, "remove_labels", <<_label>>)
        ELSE IF _is_lgtm
             THEN IF ~_has_label
                  THEN [Call(add_remove_user_approve_label(h, "add", _username,
                                                           _approvers),
                             <<"approve">>) EXCEPT !.approved = TRUE]
                  ELSE h
             ELSE update_merge_request(h, "add_labels", <<_label>>)

\* re.findall(r"!(-)?(.*)", note_body): per match the pair of the groups, ""
\* for a group that did not take part.
RECURSIVE gitlab_findall(_)
gitlab_findall(s) ==
    IF ~Contains("!", s) THEN <<>>
    ELSE LET i == FirstIndex(s, "!")
             rest == SubSeq(s, i + 1, Len(s))
             neg == IF StartsWith(rest, "-") THEN "-" ELSE ""
             text == IF neg = "-" THEN SubSeq(rest, 2, Len(rest)) ELSE rest
             eol == FirstIndex(text, "\n")
         IN  << <<neg, SubSeq(text, 1, eol - 1)>> >>
                \o gitlab_findall(SubSeq(text, eol, Len(text)))

\* GitLabApi.welcome_msg; the backquotes of the text are written as
\* apostrophes.
gitlab_welcome_msg ==
    "\n"
    \o "The following are automatically added:\n"
    \o " * Add reviewers from OWNER file (in the root of the repository)"
    \o " under reviewers section.\n"
    \o "\n"
    \o "Available user actions:\n"
    \o " * To mark MR as verified add '!verified' to a PR comment, to un"
    \o "-verify add '!-verified' to a MR comment.\n"
    \o "        Verified label removed on each new commit push.\n"
    \o " * To approve an MR, either use the 'Approve' button or add '!LG"
    \o "TM' or '!lgtm' to the MR comment.\n"
    \o " * To remove approval, either use the 'Revoke approval' button o"
    \o "r add '!-LGTM' or '!-lgtm' to the MR comment.\n"
    \o "            "

RECURSIVE gitlab_run_user_requests(_, _, _, _)
gitlab_run_user_requests(h, user_requests, _username, _approvers) ==
    IF user_requests = <<>> THEN h
    ELSE gitlab_run_user_requests(
            gitlab_label_by_user_comment(h, Head(user_requests), _username, _approvers),
            Tail(user_requests), _username, _approvers)

\* GitLabApi.process_comment_webhook_data
gitlab_process_comment_webhook_data(h, note_body, _username, _approvers) ==
    IF note_body = RStrip(gitlab_welcome_msg) THEN h
    ELSE gitlab_run_user_requests(h, gitlab_findall(note_body), _username, _approvers)

-----------------------------------------------------------------------------
(* Spec: the handlers, one delivery at a time *)

\* How many deliveries from outside (reviews, comments, other events) a
\* behaviour of Spec processes.
MaxEvents == 2

\* A reviewer whose login has 29 characters.
LongUser == "reviewer-with-a-29-char-login"

ReviewUsers == {Author, Approver, LongUser}

\* The review deliveries: <<action, state of the review, login of the reviewer>>.
ReviewInputs ==
    ({"submitted"} \X {"approved", "changes_requested"} \X ReviewUsers)
        \cup {<<"submitted", "commented", Approver>>,
              <<"dismissed", "dismissed", Approver>>}

CommentBodies == {"/lgtm", "/lgtm cancel", "/hold", "/verified", "/can-be-merged"}

CommentUsers == {Author, Approver}

\* The comment deliveries: <<action, body, login of the commenter>>.
CommentInputs ==
    ({"created"} \X CommentBodies \X {Approver})
        \cup {<<"created", "/lgtm", Author>>, <<"deleted", "/lgtm", Approver>>,
              <<"created", welcome_msg, ApiUser>>,
              <<"created", "/hold cancel/hold cancel/wip", Approver>>,
              <<"created", "/holdx", Approver>>}

GitLabBodies ==
    {"!lgtm", "!-lgtm", "!LGTM", "!verified",
     gitlab_welcome_msg, RStrip(gitlab_welcome_msg)}

Init ==
    /\ \/ labels = <<>> /\ events = EmptyBag
       \/ /\ labels = <<VERIFIED_LABEL_STR>>
          /\ events = SetToBag({<<"labeled", VERIFIED_LABEL_STR>>})
    /\ statuses = <<>>
    /\ check_runs = <<>>
    /\ mergeable_state = "clean"
    /\ approvers = {Approver}
    /\ verified_job = TRUE
    /\ platform \in {"github", "gitlab"}
    /\ author \in {Author, ApiUser}
    /\ merged = FALSE
    /\ approved = FALSE
    /\ delivered = 0
    /\ prev = NoRun
    /\ last = NoRun
    /\ workers = NoWorker

\* A pull_request_review delivery.
Review(hook_action, review_state, user_login) ==
    /\ platform = "github"
    /\ delivered < MaxEvents
    /\ LET h0 == Fetch(labels, statuses)
           h == process_pull_request_review_webhook_data(h0, hook_action,
                    review_state, user_login, author, check_runs,
                    mergeable_state, approvers)
       IN  Finish("review", <<hook_action, review_state, user_login>>, h0, h,
                  events, approved)
    /\ delivered' = delivered + 1
    /\ UNCHANGED workers

\* An issue_comment delivery.
Comment(hook_action, body, user_login) ==
    /\ platform = "github"
    /\ delivered < MaxEvents
    /\ LET h0 == Fetch(labels, statuses)
           h == process_comment_webhook_data(h0, hook_action, body, user_login,
                    author, check_runs, mergeable_state, approvers)
       IN  Finish("comment", <<hook_action, body, user_login>>, h0, h, events,
                  approved)
    /\ delivered' = delivered + 1
    /\ UNCHANGED workers

\* The delivery of a pending pull_request labeled or unlabeled event.
Labeled(e) ==
    /\ platform = "github"
    /\ BagIn(e, events)
    /\ LET h0 == Fetch(labels, statuses)
           h == process_labeled(h0, e[1], e[2], author, verified_job, check_runs,
                                mergeable_state, approvers)
       IN  Finish(e[1], <<e[2]>>, h0, h, events (-) SetToBag({e}), approved)
    /\ UNCHANGED <<delivered, workers>>

\* A note delivery on GitLab.
GitLabComment(note_body, _username) ==
    /\ platform = "gitlab"
    /\ delivered < MaxEvents
    /\ LET h0 == GitLabFetch(labels, approved)
           h == gitlab_process_comment_webhook_data(h0, note_body, _username,
                                                    approvers)
       IN  Finish("note", <<note_body, _username>>, h0, h, events, h.approved)
    /\ delivered' = delivered + 1
    /\ UNCHANGED workers

Next ==
    \/ \E r \in ReviewInputs : Review(r[1], r[2], r[3])
    \/ \E c \in CommentInputs : Comment(c[1], c[2], c[3])
    \/ \E e \in BagToSet(events) : Labeled(e)
    \/ ProcessHookOther(MaxEvents)
    \/ \E b \in GitLabBodies, u \in CommentUsers : GitLabComment(b, u)

Spec == Init /\ [][Next]_vars

-----------------------------------------------------------------------------
(* SpecManage: manage_reviewed_by_label on drawn inputs *)

\* The longest label list SpecManage draws, and how many calls of
\* manage_reviewed_by_label it makes on one pull request.
MaxManageLabels == 2

MaxManageCalls == 1

\* The review labels of the author and of an approver.
ManageLabels ==
    {APPROVED_BY_LABEL_PREFIX \o Author,
     CHANGED_REQUESTED_BY_LABEL_PREFIX \o Author,
     APPROVED_BY_LABEL_PREFIX \o Approver,
     CHANGED_REQUESTED_BY_LABEL_PREFIX \o Approver}

\* The arguments: <<review_state, action, reviewed_user>>.
ManageInputs ==
    {"approved", LGTM_STR, "changes_requested", "commented", "dismissed"}
        \X {ADD_STR, DELETE_STR} \X {Author, Approver}

InitManage ==
    /\ labels \in OrderedSets(ManageLabels, MaxManageLabels)
    /\ statuses = <<>>
    /\ check_runs = <<>>
    /\ mergeable_state = "clean"
    /\ approvers = {Approver}
    /\ verified_job = TRUE
    /\ platform = "github"
    /\ author \in {Author, ApiUser}
    /\ merged = FALSE
    /\ approved = FALSE
    /\ events = EmptyBag
    /\ delivered = 0
    /\ prev = NoRun
    /\ last = NoRun
    /\ workers = NoWorker

\* One call of manage_reviewed_by_label on the fetched pull request.
Manage(review_state, action, reviewed_user) ==
    /\ delivered < MaxManageCalls
    /\ LET h0 == Fetch(labels, statuses)
           h == manage_reviewed_by_label(h0, review_state, action,
                                         reviewed_user, author)
       IN  Finish("manage", <<review_state, action, reviewed_user>>, h0, h,
                  events, approved)
    /\ delivered' = delivered + 1
    /\ UNCHANGED workers

NextManage == \E a \in ManageInputs : Manage(a[1], a[2], a[3])

SpecManage == InitManage /\ [][NextManage]_vars

-----------------------------------------------------------------------------
(* SpecLabel: _add_label and _remove_label on drawn labels *)

\* The longest label name SpecLabel draws, the longest label list it starts
\* from, and how many calls it makes on one pull request.
MaxNameLen == 52

MaxLabelInit == 2

MaxLabelCalls == 2

\* The string of n characters c.
RECURSIVE Repeat(_, _)
Repeat(c, n) == IF n = 0 THEN "" ELSE c \o Repeat(c, n - 1)

\* Label names around the limit, bare and wrapped in white space, and two
\* short ones.
LabelNames ==
    {Repeat("x", n) : n \in (LabelMaxLen - 2)..MaxNameLen}
        \cup {" " \o Repeat("x", LabelMaxLen) \o "\n",
              " " \o Repeat("x", LabelMaxLen + 1) \o " ",
              HOLD_LABEL_STR, "size/M"}

InitLabel ==
    /\ labels \in OrderedSets({HOLD_LABEL_STR, "size/M", Repeat("x", LabelMaxLen)},
                              MaxLabelInit)
    /\ statuses = <<>>
    /\ check_runs = <<>>
    /\ mergeable_state = "clean"
    /\ approvers = {Approver}
    /\ verified_job = TRUE
    /\ platform = "github"
    /\ author = Author
    /\ merged = FALSE
    /\ approved = FALSE
    /\ events = EmptyBag
    /\ delivered = 0
    /\ prev = NoRun
    /\ last = NoRun
    /\ workers = NoWorker

\* One call of _add_label on the fetched pull request.
AddLabel(label) ==
    /\ delivered < MaxLabelCalls
    /\ LET h0 == Fetch(labels, statuses)
       IN  Finish("_add_label", <<label>>, h0, _add_label(h0, label), events,
                  approved)
    /\ delivered' = delivered + 1
    /\ UNCHANGED workers

\* One call of _remove_label on the fetched pull request.
RemoveLabel(label) ==
    /\ delivered < MaxLabelCalls
    /\ LET h0 == Fetch(labels, statuses)
       IN  Finish("_remove_label", <<label>>, h0, _remove_label(h0, label),
                  events, approved)
    /\ delivered' = delivered + 1
    /\ UNCHANGED workers

NextLabel ==
    \/ \E l \in LabelNames : AddLabel(l)
    \/ \E l \in LabelNames : RemoveLabel(l)

SpecLabel == InitLabel /\ [][NextLabel]_vars

-----------------------------------------------------------------------------
(* Claims on _add_label and _remove_label *)

\* C11: _add_label makes no call to the platform (it neither attaches the
\* label nor creates or edits a repository label) for a label whose stripped
\* name is longer than 49 characters, and it rejects no name of 49
\* characters or fewer: such a label, if the pull request does not carry it,
\* is attached.
C11_AddLabelLengthLimit ==
    last.op = "_add_label" =>
        LET _label == Strip(last.args[1])
        IN  /\ Len(_label) > 49 => last.calls = <<>> /\ last.post = last.pre
            /\ (Len(_label) <= 49 /\ _label \notin Range(last.pre)) =>
                    /\ <<"add_to_labels", _label>> \in Range(last.calls)
                    /\ _label \in Range(last.post)

\* Both sides of the limit were tried on one pull request: a name of
\* exactly 49 characters (wrapped in white space) was attached and a name
\* of 52 characters was refused.
C11_Witness ==
    /\ prev.op = "_add_label" /\ last.op = "_add_label"
    /\ Len(prev.args[1]) = 51 /\ Len(Strip(prev.args[1])) = 49
    /\ Strip(prev.args[1]) \in Range(prev.post) \ Range(prev.pre)
    /\ Len(last.args[1]) = 52
    /\ last.calls = <<>>

\* C12: _add_label of a label that is on the pull request and _remove_label
\* of a label that is not on it make no mutating call to the platform, raise
\* no error and leave the labels as they are; the labels never hold a name
\* twice.  On a run: no label the pull request carried when the run began
\* is attached again, no label it did not carry is detached, and no call
\* raises.
C12_PresentAddAbsentRemoveNoOp ==
    /\ NoRepeat(labels)
    /\ last.op # "none" =>
          /\ ~last.raised
          /\ \A c \in Range(last.calls) :
                /\ c[1] = "add_to_labels" => c[2] \notin Range(last.pre)
                /\ c[1] = "remove_from_labels" => c[2] \in Range(last.pre)

-----------------------------------------------------------------------------
(* SpecParse: the commands of a comment, on drawn bodies *)

\* How many commands the longest body SpecParse draws holds.
MaxBodyCommands == 2

ParseNames == {"retest", "wip", HOLD_LABEL_STR, "cherry-pick"}

\* Arguments; "" is the command without an argument.
ParseArgs == {"", "tox", "cancel", "Cancel", "cancel now", " cancel"}

\* The text of the commands _pairs, each <<name, argument>>.
RECURSIVE BodyOf(_)
BodyOf(_pairs) ==
    IF _pairs = <<>> THEN ""
    ELSE "/" \o Head(_pairs)[1]
             \o (IF Head(_pairs)[2] = "" THEN "" ELSE " " \o Head(_pairs)[2])
             \o BodyOf(Tail(_pairs))

InitParse ==
    /\ labels = <<>>
    /\ statuses = <<>>
    /\ check_runs = <<>>
    /\ mergeable_state = "clean"
    /\ approvers = {Approver}
    /\ verified_job = TRUE
    /\ platform = "github"
    /\ author = Author
    /\ merged = FALSE
    /\ approved = FALSE
    /\ events = EmptyBag
    /\ delivered = 0
    /\ prev = NoRun
    /\ \E _pairs \in ListsOver(ParseNames \X ParseArgs, MaxBodyCommands) \ {<<>>} :
            last = [op |-> "body", pairs |-> _pairs]
    /\ workers = NoWorker

\* The comment handler finds the commands of the body and user_commands
\* takes each apart.
ParseComment(_pairs) ==
    /\ last.op = "body"
    /\ LET _user_commands == comment_commands(BodyOf(_pairs))
       IN  last' = [op |-> "parse", args |-> <<BodyOf(_pairs)>>, pairs |-> _pairs,
                    parsed |-> [i \in DOMAIN _user_commands |->
                                    parse_command(_user_commands[i])]]
    /\ prev' = last
    /\ delivered' = delivered + 1
    /\ UNCHANGED <<labels, statuses, check_runs, mergeable_state, approvers,
                   verified_job, platform, author, merged, approved, events,
                   workers>>

NextParse == ParseComment(last.pairs)

SpecParse == InitParse /\ [][NextParse]_vars

\* C13: user_commands splits each command on its first space into a name
\* and one argument, and remove is true iff the argument is the literal
\* "cancel": "/retest tox" gives retest, tox, not remove; "/wip cancel"
\* gives wip, remove.
C13_CommandNameArgumentCancel ==
    last.op = "parse" =>
        /\ Len(last.parsed) = Len(last.pairs)
        /\ \A i \in DOMAIN last.parsed :
                /\ last.parsed[i]._command = last.pairs[i][1]
                /\ last.parsed[i]._args = last.pairs[i][2]
                /\ last.parsed[i].remove <=> (last.pairs[i][2] = "cancel")
        /\ last.args = <<"/retest tox">> =>
                last.parsed = <<[_command |-> "retest", _args |-> "tox",
                                 remove |-> FALSE]>>
        /\ last.args = <<"/wip cancel">> =>
                /\ last.parsed[1]._command = "wip"
                /\ last.parsed[1].remove

\* A body with a command whose argument only begins with "cancel" and one
\* whose argument is "cancel".
C13_Witness ==
    /\ last.op = "parse"
    /\ last.args = <<"/retest cancel now/wip cancel">>
    /\ ~last.parsed[1].remove
    /\ last.parsed[2].remove

-----------------------------------------------------------------------------
(* SpecCommand: the retest, build and cherry-pick commands of a comment *)

\* How many comments a behaviour of SpecCommand processes.
MaxCommandRuns == 1

\* A branch whose cherry-pick label has 50 characters.
LongBranch == "release-1.0-long-term-support-backport"

\* The branches of the repository.
Branches == {"main", "release-1.0", LongBranch}

RetestBodies ==
    {"/retest", "/retest tox", "/retest build-container",
     "/retest python-module-install", "/retest all", "/retest cancel",
     "/build-and-push-container"}

CherryPickBodies ==
    {"/cherry-pick", "/cherry-pick release-1.0", "/cherry-pick release-1.0 main",
     "/cherry-pick " \o LongBranch, "/cherry-pick release-2.0 main"}

\* How the commands of a test or a build end: all succeed, or one kind fails.
JobEnvs ==
    {[DefaultEnv EXCEPT !.clone = FALSE], [DefaultEnv EXCEPT !.checkout = FALSE],
     [DefaultEnv EXCEPT !.job = FALSE], [DefaultEnv EXCEPT !.push = FALSE],
     DefaultEnv}

\* The configurations of the repository, with each way the commands end.
RetestEnvs ==
    {[e EXCEPT !.tox_enabled = c[1], !.build_and_push_container = c[2],
               !.pypi = c[3], !.branches = Branches] :
        e \in JobEnvs, c \in BOOLEAN \X BOOLEAN \X BOOLEAN}

\* The step of _cherry_pick that fails, for each branch a comment of
\* CherryPickBodies may name.
GitOutcomes == [{"main", "release-1.0"} -> {"none"} \cup Range(CherryPickSteps)]

\* An open or merged pull request, each order of iteration over the two
\* branches a comment may name together, and each way the cherry-picks end.
CherryPickEnvs ==
    {[DefaultEnv EXCEPT !.is_merged = m, !.branches = Branches, !.set_order = o,
                        !.git = g] :
        m \in BOOLEAN, o \in {<<"main", "release-1.0">>, <<"release-1.0", "main">>},
        g \in GitOutcomes}

InitCommand ==
    /\ labels \in {<<>>, <<HOLD_LABEL_STR>>,
                   <<CHERRY_PICK_LABEL_PREFIX \o "release-1.0">>}
    /\ statuses = <<>>
    /\ check_runs = <<>>
    /\ mergeable_state = "clean"
    /\ approvers = {Approver}
    /\ verified_job = TRUE
    /\ platform = "github"
    /\ author = Author
    /\ merged = FALSE
    /\ approved = FALSE
    /\ events = EmptyBag
    /\ delivered = 0
    /\ prev = NoRun
    /\ last = NoRun
    /\ workers = NoWorker

\* An issue_comment delivery with the body, processed by a run that finds env.
CommandComment(body, env) ==
    /\ delivered < MaxCommandRuns
    /\ LET h0 == [Fetch(labels, statuses) EXCEPT !.env = env]
           h == process_comment_webhook_data(h0, "created", body, Approver,
                    author, check_runs, mergeable_state, approvers)
       IN  Finish("comment", <<"created", body, Approver>>, h0, h, events, approved)
    /\ delivered' = delivered + 1
    /\ UNCHANGED workers

RetestComment(body, env) == CommandComment(body, env)

CherryPickComment(body, env) == CommandComment(body, env)

NextCommand ==
    \/ \E body \in RetestBodies, env \in RetestEnvs : RetestComment(body, env)
    \/ \E body \in CherryPickBodies, env \in CherryPickEnvs :
            CherryPickComment(body, env)

SpecCommand == InitCommand /\ [][NextCommand]_vars

\* The calls a run made before its check_if_can_be_merged.
CommandCalls(run) ==
    IF run.checks = <<>> THEN run.calls
    ELSE SubSeq(run.calls, 1, Len(run.calls) - Len(run.checks[1].calls))

\* The last run is a comment with the one command _command.
CommandRun(_command) ==
    /\ last.op = "comment"
    /\ Len(comment_commands(last.args[2])) = 1
    /\ parse_command(comment_commands(last.args[2])[1])._command = _command

\* The argument of the one command of the last run.
CommandArgs == parse_command(comment_commands(last.args[2])[1])._args

\* C17: a retest or cherry-pick command without an argument, and a retest
\* command whose argument is none of tox, build-container and
\* python-module-install, is answered with a comment, adds and removes no
\* label and starts no test, build or cherry-pick.
C17_BadArgumentAnsweredWithComment ==
    (\/ (CommandRun("retest") \/ CommandRun("cherry-pick")) /\ CommandArgs = ""
     \/ /\ CommandRun("retest")
        /\ CommandArgs \notin {"tox", BUILD_CONTAINER_STR, PYTHON_MODULE_INSTALL_STR})
        => /\ \E c \in Range(CommandCalls(last)) : c[1] = "create_issue_comment"
           /\ LabelCalls(CommandCalls(last)) = <<>>
           /\ StatusCalls(CommandCalls(last)) = <<>>
           /\ last.steps = <<>>

\* The comments of calls whose text is _text.
Comments(calls, _text) ==
    SelectSeq(calls, LAMBDA c : c[1] = "create_issue_comment" /\ c[2] = _text)

\* C18: a cherry-pick command on a pull request that is not merged adds the
\* label cherry-pick-<branch> for each requested branch that exists, posts
\* one informational comment, and runs no clone, no branch creation, no
\* cherry-pick, no push and no pull request creation.
C18_CherryPickOnUnmergedAddsLabels ==
    (/\ CommandRun("cherry-pick")
     /\ Words(CommandArgs) # <<>>
     /\ ~last.env.is_merged)
        => /\ \A b \in Range(Words(CommandArgs)) \cap last.env.branches :
                (CHERRY_PICK_LABEL_PREFIX \o b) \in Range(last.post)
           /\ Len(Comments(CommandCalls(last), "Cherry-pick requested")) = 1
           /\ last.steps = <<>>

-----------------------------------------------------------------------------
(* SpecClosed: the closed delivery of a pull request with cherry-pick labels *)

\* How many labels the pull request carries at most.
MaxClosedLabels == 2

\* The labels a closed pull request may carry: cherry-pick labels of two
\* branches that exist and of one that does not, and a label of another kind.
ClosedLabels ==
    {CHERRY_PICK_LABEL_PREFIX \o "main", CHERRY_PICK_LABEL_PREFIX \o "release-1.0",
     CHERRY_PICK_LABEL_PREFIX \o "release-2.0", HOLD_LABEL_STR}

\* No container configured, a container that is built and pushed, one whose
\* build fails, and a repository whose git clone fails.
ContainerEnvs ==
    {DefaultEnv, [DefaultEnv EXCEPT !.build_and_push_container = TRUE],
     [DefaultEnv EXCEPT !.build_and_push_container = TRUE, !.job = FALSE],
     [DefaultEnv EXCEPT !.clone = FALSE]}

\* The open pull requests of the repository, each with its mergeable state
\* and its labels.
OpenPulls ==
    {<<>>,
     <<[mergeable_state |-> "behind", labels |-> <<>>]>>,
     <<[mergeable_state |-> "clean", labels |-> <<NEEDS_REBASE_LABEL_STR>>],
       [mergeable_state |-> "behind", labels |-> <<>>]>>}

ClosedEnvs ==
    {[e EXCEPT !.is_merged = TRUE, !.branches = Branches, !.git = g,
               !.open_pulls = o] :
        e \in ContainerEnvs, g \in GitOutcomes, o \in OpenPulls}

InitClosed ==
    /\ labels \in OrderedSets(ClosedLabels, MaxClosedLabels)
    /\ statuses = <<>>
    /\ check_runs = <<>>
    /\ mergeable_state = "clean"
    /\ approvers = {Approver}
    /\ verified_job = TRUE
    /\ platform = "github"
    /\ author = Author
    /\ merged = FALSE
    /\ approved = FALSE
    /\ events = EmptyBag
    /\ delivered = 0
    /\ prev = NoRun
    /\ last = NoRun
    /\ workers = NoWorker

\* A pull_request delivery with the action closed: the pull request was
\* closed without a merge, and may be closed again after it is reopened, or
\* it was merged, which happens once.
Closed(_merged, env) ==
    /\ ~merged
    /\ LET h0 == [Fetch(labels, statuses) EXCEPT !.env = env]
           h == process_pull_request_closed(h0, _merged)
       IN  Finish("closed", <<_merged>>, h0, [h EXCEPT !.merged = _merged], events,
                  approved)
    /\ UNCHANGED <<delivered, workers>>

NextClosed ==
    \/ \E env \in ClosedEnvs : Closed(TRUE, env)
    \/ Closed(FALSE, DefaultEnv)

SpecClosed == InitClosed /\ [][NextClosed]_vars

\* The target branches of the cherry-pick labels the last run found on the
\* pull request, in the order of the labels.
Targets ==
    LET cp == SelectSeq(last.pre, LAMBDA l : StartsWith(l, CHERRY_PICK_LABEL_PREFIX))
    IN  [i \in DOMAIN cp |-> Replace(cp[i], CHERRY_PICK_LABEL_PREFIX, "")]

\* The last run processed the closed delivery of a merged pull request, its
\* clones worked and its container, if one is configured, was built.
MergedRun ==
    /\ last.op = "closed"
    /\ last.args[1]
    /\ last.env.clone
    /\ last.env.build_and_push_container => (last.env.job /\ last.env.checkout)

\* The cherry-pick to the target t was attempted: a missing branch was
\* answered, or git cherry-pick was run for t.
Attempted(t) ==
    IF t \in last.env.branches
    THEN <<"git cherry-pick", t>> \in Range(last.steps)
    ELSE Comments(last.calls, "cherry-pick failed: " \o t \o " does not exists") # <<>>

\* The cherry-pick to the target t failed: the branch is missing, or a step
\* of _cherry_pick fails.
Failed(t) == t \notin last.env.branches \/ CherryPickOutcome(last, t) # "none"

\* C19: when a merged pull request carries several cherry-pick labels, the
\* failure of one target (branch missing, conflict of git cherry-pick,
\* failure of git push or of the pull request creation) keeps neither the
\* cherry-pick of the other targets from being attempted nor needs_rebase
\* from being run after the loop.
C19_TargetFailureDoesNotBlockOthers ==
    MergedRun =>
        /\ \A i \in DOMAIN Targets : Attempted(Targets[i])
        /\ <<"get_pulls">> \in Range(last.steps)

\* A run with two targets of which the first fails, while the second is
\* attempted and needs_rebase is run.
C19_Witness ==
    /\ MergedRun
    /\ Len(Targets) = 2
    /\ Failed(Targets[1])
    /\ Targets[1] \in last.env.branches
    /\ Attempted(Targets[2])
    /\ <<"get_pulls">> \in Range(last.steps)

\* The recovery comments of the last run for the target t.
RecoveryComments(t) ==
    SelectSeq(last.calls, LAMBDA c :
        /\ c[1] = "create_issue_comment"
        /\ StartsWith(c[2], "**Manual cherry-pick is needed**")
        /\ Contains(" to " \o t \o ":", c[2]))

\* The last run cherry-picked to the existing branch t and a step of
\* _cherry_pick failed.
StepFailed(t) ==
    /\ MergedRun
    /\ t \in Range(Targets)
    /\ t \in last.env.branches
    /\ CherryPickOutcome(last, t) # "none"

\* C20: when git cherry-pick, git push or the pull request creation fails
\* for a target, _cherry_pick posts exactly one recovery comment for the
\* target, with the merge commit hash, the target branch and the commands to
\* run by hand, it returns False without raising, and no "Cherry-picked PR"
\* comment is posted for the target.
C20_FailedStepOneRecoveryComment ==
    \A t \in Branches :
        StepFailed(t) =>
            /\ Len(RecoveryComments(t)) = 1
            /\ LET text == RecoveryComments(t)[1][2]
               IN  /\ Contains(last.env.merge_commit_sha, text)
                   /\ Contains(t, text)
                   /\ Contains("git checkout " \o t \o "\n", text)
                   /\ Contains("git pull origin " \o t \o "\n", text)
                   /\ Contains("git cherry-pick " \o last.env.merge_commit_sha \o "\n", text)
                   /\ Contains("git push origin ", text)
            /\ <<"_cherry_pick returned", t, FALSE>> \in Range(last.steps)
            /\ Comments(last.calls,
                        "Cherry-picked PR " \o last.env.title \o " into " \o t) = <<>>

\* A run in which the push fails for release-1.0 after main was picked.
C20_Witness ==
    /\ StepFailed("release-1.0")
    /\ CherryPickOutcome(last, "release-1.0") = "git push"
    /\ Targets = <<"main", "release-1.0">>
    /\ CherryPickOutcome(last, "main") = "none"
    /\ Len(RecoveryComments("release-1.0")) = 1

-----------------------------------------------------------------------------
(* Claims on the review labels and the comment commands *)

\* The two runs before this state are the reviews "approved" and then
\* "changes_requested" of the same reviewer _user.
ApprovedThenChangesRequested(_user) ==
    /\ prev.op = "review"
    /\ prev.args = <<"submitted", "approved", _user>>
    /\ last.op = "review"
    /\ last.args = <<"submitted", "changes_requested", _user>>

\* C6: for every reviewer U other than the author, of any length of name,
\* manage_reviewed_by_label("approved", add, U) and then
\* manage_reviewed_by_label("changes_requested", add, U) leave
\* Changes-requested-By-U on the pull request and Approved-By-U off it.
C6_ChangesRequestedReplacesApproved ==
    \A u \in ReviewUsers \ {author} :
        ApprovedThenChangesRequested(u) =>
            /\ (CHANGED_REQUESTED_BY_LABEL_PREFIX \o u) \in Range(labels)
            /\ (APPROVED_BY_LABEL_PREFIX \o u) \notin Range(labels)

\* The calls of manage_reviewed_by_label in the last run that are a self
\* approval: review state "approved" or "lgtm", action add, the reviewer the
\* author of the pull request.
SelfApprovals ==
    IF last.op = "none" THEN {}
    ELSE {m \in Range(last.manage) :
            /\ m.review_state \in {"approved", LGTM_STR}
            /\ m.action = ADD_STR
            /\ m.reviewed_user = m.pr_owner}

\* C9: manage_reviewed_by_label with review state "approved" or "lgtm",
\* action add and the author as the reviewer changes no label: it makes no
\* call, adds no Approved-By-<author> and removes no
\* Changes-requested-By-<author>.
C9_SelfApprovalNoLabelChange ==
    \A m \in SelfApprovals :
        /\ m.calls = <<>>
        /\ m.post = m.pre
        /\ (APPROVED_BY_LABEL_PREFIX \o m.pr_owner) \in Range(m.post)
              <=> (APPROVED_BY_LABEL_PREFIX \o m.pr_owner) \in Range(m.pre)

\* A self approval on a pull request that carries the author's own
\* Changes-requested-By label, which an approval of another reviewer would
\* have removed.
C9_Witness ==
    \E m \in SelfApprovals :
        (CHANGED_REQUESTED_BY_LABEL_PREFIX \o m.pr_owner) \in Range(m.pre)

\* C10: an lgtm comment command of the pull request's own author, "/lgtm" on
\* GitHub and "!lgtm" on GitLab, leaves the labels as they were: no
\* Approved-By-<author>, no Reviewed-By-<author> and no lgtm label is added.
C10_AuthorLgtmLeavesLabels ==
    (\/ last.op = "comment" /\ last.args = <<"created", "/lgtm", author>>
     \/ last.op = "note" /\ last.args = <<"!lgtm", author>>)
        => last.post = last.pre

\* C14: when the body of the comment is exactly the welcome message the
\* server posts, on GitHub and on GitLab each with its own text, the comment
\* handler runs no command, changes no label, writes no status, posts no
\* comment and does not run check_if_can_be_merged.
C14_WelcomeMessageSkipped ==
    (\/ last.op = "comment" /\ last.args[1] = "created" /\ last.args[2] = welcome_msg
     \/ last.op = "note" /\ last.args[1] = gitlab_welcome_msg)
        => /\ last.calls = <<>>
           /\ last.post = last.pre
           /\ last.checks = <<>>
           /\ statuses = last.statuses


\* The calls with which user_commands answers a command: the reaction to
\* the comment or a comment of its own.
CommandAnswers(calls) ==
    SelectSeq(calls, LAMBDA c : c[1] \in {"create_reaction", "create_issue_comment"})

\* C15: the commands of one comment are executed in the order of the text,
\* and an error raised while one command is executed keeps neither the
\* commands after it nor the final check_if_can_be_merged from being
\* executed: every command of the comment is answered and the check runs.
C15_CommandFailureDoesNotBlock ==
    (/\ last.op = "comment"
     /\ last.args[1] = "created"
     /\ last.args[2] # welcome_msg)
        => /\ Len(CommandAnswers(last.calls)) = Len(comment_commands(last.args[2]))
           /\ last.checks # <<>>

\* The commands user_commands handles itself.
ActionCommands == {"retest", "cherry-pick", "build-and-push-container"}

\* The last run is a comment with the one command whose name is neither an
\* action command nor a label of USER_LABELS_DICT.
UnknownCommandRun ==
    /\ last.op = "comment"
    /\ last.args[1] = "created"
    /\ last.args[2] # welcome_msg
    /\ Len(comment_commands(last.args[2])) = 1
    /\ parse_command(comment_commands(last.args[2])[1])._command
          \notin ActionCommands \cup USER_LABELS_DICT

\* C16: a comment command whose name is neither an action command nor a
\* label of USER_LABELS_DICT is answered with a rejection comment and no
\* label is added or removed, also when the name only begins with a label
\* of USER_LABELS_DICT, as "holdx" does.
C16_UnknownCommandRejected ==
    UnknownCommandRun =>
        /\ \E c \in Range(last.calls) : c[1] = "create_issue_comment"
        /\ LabelCalls(last.calls) = <<>>
        /\ last.post = last.pre

-----------------------------------------------------------------------------
(* SpecWorkers: two workers process deliveries at the same time *)

\* A worker processes a delivery in two steps: it fetches the pull request
\* (_get_pull_request, whose labels the handler reads from then on), and
\* later it runs the rest of the handler against the platform as it is then.

\* How many deliveries from outside a behaviour of SpecWorkers processes.
MaxWorkerEvents == 2

\* The deliveries from outside: <<event, action, state or body, login>>.
WorkerInputs ==
    {<<"review", "submitted", "approved", Approver>>,
     <<"review", "submitted", "changes_requested", Approver>>,
     <<"comment", "created", "/hold", Approver>>}

InitWorkers ==
    /\ labels = <<VERIFIED_LABEL_STR>>
    /\ events = SetToBag({<<"labeled", VERIFIED_LABEL_STR>>})
    /\ statuses = <<>>
    /\ check_runs = <<>>
    /\ mergeable_state = "clean"
    /\ approvers = {Approver}
    /\ verified_job = TRUE
    /\ platform = "github"
    /\ author = Author
    /\ merged = FALSE
    /\ approved = FALSE
    /\ delivered = 0
    /\ prev = NoRun
    /\ last = NoRun
    /\ workers = NoWorker

\* Worker w takes the delivery d and fetches the pull request.
Start(w, d) ==
    /\ workers[w] = Idle
    /\ workers' = [workers EXCEPT ![w] =
                    [pc |-> "fetched", delivery |-> d, pr_labels |-> labels]]
    /\ UNCHANGED <<labels, statuses, check_runs, mergeable_state, approvers,
                   verified_job, platform, author, merged, approved, prev, last>>

\* A delivery from outside arrives and worker w takes it.
StartDelivery(w, d) ==
    /\ delivered < MaxWorkerEvents
    /\ Start(w, d)
    /\ delivered' = delivered + 1
    /\ UNCHANGED events

\* Worker w takes a pending labeled or unlabeled delivery.
StartLabeled(w, e) ==
    /\ BagIn(e, events)
    /\ Start(w, <<"pull_request", e[1], e[2]>>)
    /\ events' = events (-) SetToBag({e})
    /\ UNCHANGED delivered

\* Worker w runs the handler of its delivery on the pull request it fetched.
Complete(w) ==
    /\ workers[w] # Idle
    /\ LET d == workers[w].delivery
           h0 == [Fetch(labels, statuses) EXCEPT !.pr_labels = workers[w].pr_labels]
           h == CASE d[1] = "review" ->
                       process_pull_request_review_webhook_data(h0, d[2], d[3],
                           d[4], author, check_runs, mergeable_state, approvers)
                  [] d[1] = "comment" ->
                       process_comment_webhook_data(h0, d[2], d[3], d[4], author,
                           check_runs, mergeable_state, approvers)
                  [] d[1] = "pull_request" ->
                       process_labeled(h0, d[2], d[3], author, verified_job,
                           check_runs, mergeable_state, approvers)
       IN  Finish(d[1], Tail(d), h0, h, events, approved)
    /\ workers' = [workers EXCEPT ![w] = Idle]
    /\ UNCHANGED delivered

NextWorkers ==
    \/ \E w \in Workers, d \in WorkerInputs : StartDelivery(w, d)
    \/ \E w \in Workers, e \in BagToSet(events) : StartLabeled(w, e)
    \/ \E w \in Workers : Complete(w)

SpecWorkers == InitWorkers /\ [][NextWorkers]_vars

-----------------------------------------------------------------------------
(* Claims on concurrent deliveries (SpecWorkers) *)

\* The calls among calls that add or remove the can-be-merged label.
CanBeMergedCalls(calls) ==
    SelectSeq(calls, LAMBDA c : /\ c[1] \in {"add_to_labels", "remove_from_labels"}
                                /\ c[2] = CAN_BE_MERGED_STR)

\* The calls made inside the runs of check_if_can_be_merged of _checks.
RECURSIVE ChecksCalls(_)
ChecksCalls(_checks) ==
    IF _checks = <<>> THEN <<>>
    ELSE Head(_checks).calls \o ChecksCalls(Tail(_checks))

\* C4: the can-be-merged label is added and removed only inside
\* check_if_can_be_merged, and after every completed run of
\* check_if_can_be_merged the label is on the pull request iff that run
\* computed "mergeable".
C4_CanBeMergedFollowsCheck ==
    last.op # "none" =>
        /\ CanBeMergedCalls(last.calls) = CanBeMergedCalls(ChecksCalls(last.checks))
        /\ \A c \in Range(last.checks) :
                c.completed =>
                    (CAN_BE_MERGED_STR \in Range(c.post) <=> c.can_be_merged)

\* A worker is in the middle of processing a review of reviewer u.
ReviewInProgress(u) ==
    \E w \in Workers :
        /\ workers[w] # Idle
        /\ workers[w].delivery[1] = "review"
        /\ workers[w].delivery[4] = u

\* C7: in every state in which no review of reviewer u is being processed,
\* at most one of Approved-By-u and Changes-requested-By-u is on the pull
\* request, also when an approved and a changes_requested review of u are
\* processed by two workers at the same time.
C7_OneReviewLabelPerReviewer ==
    \A u \in {Approver} :
        ~ReviewInProgress(u) =>
            ~(/\ (APPROVED_BY_LABEL_PREFIX \o u) \in Range(labels)
              /\ (CHANGED_REQUESTED_BY_LABEL_PREFIX \o u) \in Range(labels))

\* Every delivery, those for the server's own label changes included, is
\* processed.
Quiescent ==
    /\ \A w \in Workers : workers[w] = Idle
    /\ events = EmptyBag

\* C8: once all deliveries are processed, in whatever order and interleaving
\* the workers took them, can-be-merged is on the pull request only if the
\* conditions for merging hold on the labels then: never together with hold.
C8_TerminalNeverMergeableOnHold ==
    Quiescent =>
        ~(/\ CAN_BE_MERGED_STR \in Range(labels)
          /\ HOLD_LABEL_STR \in Range(labels))

-----------------------------------------------------------------------------
(* Claims on the evaluator without the verified job, and on the labeled and
   synchronize deliveries *)

\* C28: when the repository has no verified job, a pull request without the
\* verified label that meets the other six conditions is computed as
\* mergeable.
C28_VerifiedNotNeededWithoutJob ==
    (/\ EvalRan
     /\ ~verified_job
     /\ VERIFIED_LABEL_STR \notin Range(last.pre)
     /\ Eligible(last.pre, last.statuses, check_runs, mergeable_state,
                 approvers, verified_job))
        => last.can_be_merged = TRUE

-----------------------------------------------------------------------------
(* SpecLabeled: labeled and unlabeled deliveries on drawn pull requests *)

\* How many deliveries a behaviour of SpecLabeled processes.
MaxLabeledRuns == 1

\* The identity of the CI service whose pull requests are merged automatically.
PreCommitCi == "pre-commit-ci[bot]"

\* The labels of the delivery and who set or removed the label.
LabeledNames == {CAN_BE_MERGED_STR, "Can-Be-Merged", VERIFIED_LABEL_STR, HOLD_LABEL_STR}

LabeledSenders == {ApiUser, PreCommitCi, Approver}

InitLabeled ==
    /\ labels \in {<<>>, <<CAN_BE_MERGED_STR>>,
                   <<VERIFIED_LABEL_STR, APPROVED_BY_LABEL_PREFIX \o Approver>>,
                   <<VERIFIED_LABEL_STR, APPROVED_BY_LABEL_PREFIX \o Approver,
                     CAN_BE_MERGED_STR>>}
    /\ statuses = <<>>
    /\ check_runs = <<>>
    /\ mergeable_state = "clean"
    /\ approvers = {Approver}
    /\ verified_job \in BOOLEAN
    /\ platform = "github"
    /\ author \in {Author, ApiUser, PreCommitCi}
    /\ merged = FALSE
    /\ approved = FALSE
    /\ events = EmptyBag
    /\ delivered = 0
    /\ prev = NoRun
    /\ last = NoRun
    /\ workers = NoWorker

\* A pull_request delivery with the action labeled or unlabeled; sender is
\* the user who set or removed the label, which the handler does not read.
LabeledDelivery(hook_action, label_name, sender) ==
    /\ delivered < MaxLabeledRuns
    /\ ~merged
    /\ LET h0 == Fetch(labels, statuses)
           h == process_labeled(h0, hook_action, label_name, author, verified_job,
                                check_runs, mergeable_state, approvers)
       IN  Finish("labeled", <<hook_action, label_name, sender>>, h0, h, events,
                  approved)
    /\ delivered' = delivered + 1
    /\ UNCHANGED workers

NextLabeled ==
    \E hook_action \in {"labeled", "unlabeled"}, label_name \in LabeledNames,
       sender \in LabeledSenders :
        LabeledDelivery(hook_action, label_name, sender)

SpecLabeled == InitLabeled /\ [][NextLabeled]_vars

\* The last run processed a labeled or unlabeled delivery.
LabeledRun == last.op = "labeled"

\* The last run merged the pull request.
Merged == <<"merge">> \in Range(last.calls)

\* C26: on a labeled delivery the handler merges the pull request iff the
\* label is can-be-merged and was set by the identity of the server or by
\* pre-commit-ci[bot]; when it merges it does nothing else for the delivery.
C26_MergesIffLabelSetByTrusted ==
    LabeledRun =>
        /\ Merged <=> (/\ last.args[1] = "labeled"
                       /\ Lower(last.args[2]) = CAN_BE_MERGED_STR
                       /\ last.args[3] \in {ApiUser, PreCommitCi})
        /\ Merged => (Len(last.calls) = 2 /\ last.checks = <<>>)

\* C26 as the code has it: the handler merges iff the label is
\* can-be-merged and the author of the pull request is the identity of the
\* server or pre-commit-ci[bot], whoever set the label; when it merges it
\* posts one comment, merges, and does nothing else for the delivery.
C26_MergesIffAuthorTrusted ==
    LabeledRun =>
        /\ Merged <=> (/\ last.args[1] = "labeled"
                       /\ Lower(last.args[2]) = CAN_BE_MERGED_STR
                       /\ author \in {ApiUser, PreCommitCi})
        /\ Merged => /\ last.calls = <<<<"create_issue_comment", "merged automatically">>,
                                       <<"merge">>>>
                     /\ last.checks = <<>>
                     /\ last.post = last.pre
                     /\ merged

\* The pull request of the server's identity is merged when an approver
\* sets the label.
C26_Witness ==
    /\ LabeledRun
    /\ Merged
    /\ author = ApiUser
    /\ last.args[3] = Approver

-----------------------------------------------------------------------------
(* SpecSync: the synchronize delivery of a pull request *)

\* How many synchronize deliveries a behaviour of SpecSync processes.
MaxSyncRuns == 1

\* assign_reviewers: a review is requested from each reviewer but the
\* author; a request the platform refuses is logged.
RECURSIVE assign_reviewers(_, _, _)
assign_reviewers(h, _reviewers, parent_committer) ==
    IF _reviewers = <<>> \/ h.raised THEN h
    ELSE assign_reviewers(
            IF Head(_reviewers) # parent_committer
            THEN Call(h, <<"create_review_request", Head(_reviewers)>>)
            ELSE h,
            Tail(_reviewers), parent_committer)

\* add_size_label
add_size_label(h) ==
    LET size == h.env.size
        _label == IF size < 20 THEN "XS" ELSE IF size < 50 THEN "S"
                  ELSE IF size < 100 THEN "M" ELSE IF size < 300 THEN "L"
                  ELSE IF size < 500 THEN "XL" ELSE "XXL"
    IN  _add_label(h, "size/" \o _label)

\* reset_verify_label
reset_verify_label(h) == _remove_label(h, VERIFIED_LABEL_STR)

\* _process_verified as it would be without the test of the committer.
_process_verified_resets_always(h, parent_committer, _verified_job) ==
    IF ~_verified_job THEN h
    ELSE set_verify_check_pending(reset_verify_label(h))

\* _process_verified
_process_verified(h, parent_committer, _verified_job) ==
    IF ~_verified_job THEN h
    ELSE IF parent_committer \in {ApiUser, "pre-commit-ci[bot]"}
    THEN set_verify_check_success(_add_label(h, VERIFIED_LABEL_STR))
    ELSE set_verify_check_pending(reset_verify_label(h))

\* The loop of the synchronize branch over the labels with "By-" in the name.
RECURSIVE remove_reviewed_by_labels(_, _)
remove_reviewed_by_labels(h, _labels) ==
    IF _labels = <<>> THEN h
    ELSE remove_reviewed_by_labels(
            IF Contains("By-", Head(_labels)) THEN _remove_label(h, Head(_labels))
            ELSE h,
            Tail(_labels))

\* process_pull_request_webhook_data for the action synchronize, from the
\* fetched pull request on.
process_pull_request_synchronize(h, parent_committer, _verified_job, _check_runs, _mergeable_state, _approvers) ==
    IF h.env.is_merged THEN h
    ELSE LET h1 == add_size_label(
                      assign_reviewers(set_container_build_pending(h),
                                       h.env.reviewers, parent_committer))
             h2 == _install_python_module(
                      _process_verified(h1, parent_committer, _verified_job))
             h3 == remove_reviewed_by_labels(h2, h.pr_labels)
             h4 == _build_container(run_tox(h3), TRUE, "pass")
         IN  check_if_can_be_merged(h4, _check_runs, _mergeable_state, _approvers)

\* What a synchronize run may find: an open or a merged pull request, with
\* or without tests configured, tests that pass or fail, a clone that fails.
SyncEnvs ==
    {[e EXCEPT !.is_merged = m, !.reviewers = <<Approver, Author>>] :
        m \in BOOLEAN,
        e \in {DefaultEnv,
               [DefaultEnv EXCEPT !.tox_enabled = TRUE, !.pypi = TRUE],
               [DefaultEnv EXCEPT !.tox_enabled = TRUE, !.job = FALSE],
               [DefaultEnv EXCEPT !.pypi = TRUE, !.clone = FALSE]}}

InitSync ==
    /\ labels \in {<<>>, <<VERIFIED_LABEL_STR>>,
                   <<VERIFIED_LABEL_STR, APPROVED_BY_LABEL_PREFIX \o Approver>>,
                   <<HOLD_LABEL_STR, VERIFIED_LABEL_STR, "size/XS">>,
                   <<"Blocked-By-release", COMMENTED_BY_LABEL_PREFIX \o Approver>>}
    /\ statuses = <<>>
    /\ check_runs = <<>>
    /\ mergeable_state = "clean"
    /\ approvers = {Approver}
    /\ verified_job \in BOOLEAN
    /\ platform = "github"
    /\ author \in {Author, ApiUser, PreCommitCi}
    /\ merged = FALSE
    /\ approved = FALSE
    /\ events = EmptyBag
    /\ delivered = 0
    /\ prev = NoRun
    /\ last = NoRun
    /\ workers = NoWorker

\* A pull_request delivery with the action synchronize.
Synchronize(env) ==
    /\ delivered < MaxSyncRuns
    /\ LET h0 == [Fetch(labels, statuses) EXCEPT !.env = env]
           h == process_pull_request_synchronize(h0, author, verified_job,
                    check_runs, mergeable_state, approvers)
       IN  Finish("synchronize", <<>>, h0, h, events, approved)
    /\ delivered' = delivered + 1
    /\ UNCHANGED workers

NextSync == \E env \in SyncEnvs : Synchronize(env)

SpecSync == InitSync /\ [][NextSync]_vars

\* The last run processed the synchronize delivery of a pull request that
\* is not merged.
SyncRun == last.op = "synchronize" /\ ~last.env.is_merged

-----------------------------------------------------------------------------
(* Claims on needs_rebase and on exceptions in cherry_pick (SpecClosed) *)

\* The labels of the i-th open pull request after the run: the handler
\* makes every add_to_labels and remove_from_labels call on its own pull
\* request, so the labels of the others are what they were.
OpenPullLabelsAfter(run, i) == run.env.open_pulls[i].labels

\* C25: after the merge of a pull request, needs_rebase sets needs-rebase on
\* every other open pull request that is behind and removes it from every
\* open pull request that is not; the label is changed on the pull request
\* that was looked at.
C25_NeedsRebaseOnInspectedPullRequest ==
    (MergedRun /\ <<"get_pulls">> \in Range(last.steps)) =>
        /\ \A i \in DOMAIN last.env.open_pulls :
                (last.env.open_pulls[i].mergeable_state = "behind")
                    <=> (NEEDS_REBASE_LABEL_STR \in Range(OpenPullLabelsAfter(last, i)))
        /\ \A c \in Range(LabelCalls(last.calls)) : c[2] # NEEDS_REBASE_LABEL_STR


\* The comments of the last run that report the cherry-pick to t as done.
CherryPickedComments(t) ==
    Comments(last.calls, "Cherry-picked PR " \o last.env.title \o " into " \o t)

\* C21: an exception at a step of the cherry-pick sequence (the clone, the
\* change into the clone directory, the checkout of the new branch, git
\* cherry-pick, git push, the pull request creation) is answered with the
\* recovery comment and does not leave cherry_pick: every target on an
\* existing branch ends with a comment, and needs_rebase runs after the loop.
C21_CherryPickExceptionBecomesComment ==
    (/\ last.op = "closed"
     /\ last.args[1]
     /\ ~last.env.build_and_push_container) =>
        /\ \A i \in DOMAIN Targets :
                Targets[i] \in last.env.branches =>
                    \/ CherryPickedComments(Targets[i]) # <<>>
                    \/ RecoveryComments(Targets[i]) # <<>>
        /\ <<"get_pulls">> \in Range(last.steps)


-----------------------------------------------------------------------------
(* SpecProcess: the cherry-picks of two workers of one server process,
   statement by statement, on the working directory, the clone directories
   and the GITHUB_TOKEN entry of os.environ that the workers share *)

\* os.environ without the GITHUB_TOKEN entry.
Unset == ""

\* The tokens of the repositories of the configuration.
Tokens == {"token-a", "token-b"}

\* The working directory the server was started in.
StartDir == "/webhook_server"

\* _clone_path of the invocation that worker w runs: the path ends with a
\* fresh shortuuid, so no two invocations share it.
ClonePath(w) == "/tmp/repo-" \o ToString(w)

\* The external commands of a cherry-pick before the pull request is
\* created, in the order they are run: the last setup command of
\* _clone_repository, _checkout_new_branch, and the two of _cherry_pick.
GitCommands ==
    <<"git remote update", "git checkout -b", "git cherry-pick", "git push">>

\* The state of the process: for each worker the statement it is at (pc),
\* self.token, the old_cwd of change_directory and the commands it ran with
\* the working directory of the process at that moment, the exception the
\* handler of _cherry_pick caught (ex) and the comment the invocation posted;
\* and for the process os.environ["GITHUB_TOKEN"], os.getcwd() and the clone
\* directories on disk.
os_environ == workers.environ
cwd == workers.cwd
pc(w) == workers.pc[w]

InitProcess ==
    /\ labels = <<>>
    /\ statuses = <<>>
    /\ check_runs = <<>>
    /\ mergeable_state = "clean"
    /\ approvers = {Approver}
    /\ verified_job = TRUE
    /\ platform = "github"
    /\ author = Author
    /\ merged = TRUE
    /\ approved = FALSE
    /\ events = EmptyBag
    /\ delivered = 0
    /\ prev = NoRun
    /\ last = NoRun
    /\ \E t \in [Workers -> Tokens] :
            workers = [pc |-> [w \in Workers |-> "idle"],
                       token |-> t,
                       old_cwd |-> [w \in Workers |-> StartDir],
                       ran |-> [w \in Workers |-> {}],
                       ex |-> [w \in Workers |-> ""],
                       comment |-> [w \in Workers |-> ""],
                       environ |-> Unset,
                       cwd |-> StartDir,
                       dirs |-> {}]

ProcessUnchanged ==
    UNCHANGED <<labels, statuses, check_runs, mergeable_state, approvers,
                verified_job, platform, author, merged, approved, events,
                delivered, prev, last>>

\* Worker w runs the external command cmd: it runs in the working directory
\* of the process, and hub reads the token from the environment.
Ran(w, cmd) ==
    [workers EXCEPT !.ran[w] = @ \cup
        {<<cmd, workers.cwd, IF cmd = "hub pull-request" THEN workers.environ ELSE Unset>>}]

\* _clone_repository: git clone, whose result is not looked at; the clone
\* creates the directory or fails.
GitClone(w, cloned) ==
    /\ pc(w) = "idle"
    /\ workers' = [workers EXCEPT !.pc[w] = "chdir",
                                  !.dirs = IF cloned THEN @ \cup {ClonePath(w)} ELSE @]
    /\ ProcessUnchanged

\* change_directory up to its yield: old_cwd = os.getcwd() and
\* os.chdir(directory), which raises when the directory does not exist.
EnterDirectory(w) ==
    /\ pc(w) = "chdir"
    /\ workers' = IF ClonePath(w) \in workers.dirs
                  THEN [workers EXCEPT !.pc[w] = GitCommands[1],
                                       !.old_cwd[w] = workers.cwd,
                                       !.cwd = ClonePath(w)]
                  ELSE [workers EXCEPT !.pc[w] = "raised",
                                       !.old_cwd[w] = workers.cwd]
    /\ ProcessUnchanged

\* One of the git commands of the invocation; after git push the worker
\* enters set_os_env_github_token.
GitCommand(w, i) ==
    /\ pc(w) = GitCommands[i]
    /\ workers' = [Ran(w, GitCommands[i]) EXCEPT
                        !.pc[w] = IF i < Len(GitCommands) THEN GitCommands[i + 1]
                                  ELSE "environ.get"]
    /\ ProcessUnchanged

\* set_os_env_github_token: os_env_github_token = os.environ.get(...), and
\* the test that decides whether the worker waits.
ReadEnviron(w) ==
    /\ pc(w) = "environ.get"
    /\ workers' = [workers EXCEPT
                        !.pc[w] = IF workers.environ # Unset
                                     /\ workers.environ # workers.token[w]
                                  THEN "wait" ELSE "environ.set"]
    /\ ProcessUnchanged

\* The polling loop: the worker leaves it when it finds the entry unset, and
\* sleeps otherwise.
Wait(w) ==
    /\ pc(w) = "wait"
    /\ workers.environ = Unset
    /\ workers' = [workers EXCEPT !.pc[w] = "environ.set"]
    /\ ProcessUnchanged

\* os.environ[github_token_env] = self.token, and the yield.
SetEnviron(w) ==
    /\ pc(w) = "environ.set"
    /\ workers' = [workers EXCEPT !.pc[w] = "hub", !.environ = workers.token[w]]
    /\ ProcessUnchanged

\* The body of the with statement: hub pull-request. When it raises, the
\* generator of set_os_env_github_token is left at its yield, the pop is not
\* run, and the handler of _cherry_pick posts the recovery comment.
Hub(w, raises) ==
    /\ pc(w) = "hub"
    /\ workers' = [Ran(w, "hub pull-request") EXCEPT
                        !.pc[w] = IF raises THEN "comment" ELSE "environ.pop",
                        !.ex[w] = IF raises THEN "hub pull-request" ELSE @]
    /\ ProcessUnchanged

\* os.environ.pop(github_token_env): a KeyError when the entry is not there,
\* which the handler of _cherry_pick catches.
PopEnviron(w) ==
    /\ pc(w) = "environ.pop"
    /\ workers' = [workers EXCEPT
                        !.pc[w] = "comment",
                        !.ex[w] = IF workers.environ = Unset THEN "KeyError" ELSE @,
                        !.environ = Unset]
    /\ ProcessUnchanged

\* create_issue_comment: the recovery comment of _issue_from_err when the
\* handler of _cherry_pick caught an exception, and 'Cherry-picked PR' of
\* cherry_pick when _cherry_pick returned True. When the comment raises, the
\* exception leaves the with statement of _clone_repository.
PostComment(w, raises) ==
    /\ pc(w) = "comment"
    /\ workers' = [workers EXCEPT
                        !.pc[w] = IF raises THEN "raised" ELSE "chdir back",
                        !.comment[w] = IF raises THEN @
                                       ELSE IF workers.ex[w] = ""
                                            THEN "Cherry-picked PR"
                                            ELSE "Manual cherry-pick is needed"]
    /\ ProcessUnchanged

\* change_directory after its yield: os.chdir(old_cwd).
LeaveDirectory(w) ==
    /\ pc(w) = "chdir back"
    /\ workers' = [workers EXCEPT !.pc[w] = "rmtree", !.cwd = workers.old_cwd[w]]
    /\ ProcessUnchanged

\* shutil.rmtree(_clone_path, ignore_errors=True).
RemoveTree(w) ==
    /\ pc(w) = "rmtree"
    /\ workers' = [workers EXCEPT !.pc[w] = "done", !.dirs = @ \ {ClonePath(w)}]
    /\ ProcessUnchanged

\* A statement of worker w.
WorkerStep(w) ==
    \/ \E cloned \in BOOLEAN : GitClone(w, cloned)
    \/ EnterDirectory(w)
    \/ \E i \in DOMAIN GitCommands : GitCommand(w, i)
    \/ ReadEnviron(w)
    \/ Wait(w)
    \/ SetEnviron(w)
    \/ \E raises \in BOOLEAN : Hub(w, raises)
    \/ PopEnviron(w)
    \/ \E raises \in BOOLEAN : PostComment(w, raises)
    \/ LeaveDirectory(w)
    \/ RemoveTree(w)

NextProcess == \E w \in Workers : WorkerStep(w)

SpecProcess == InitProcess /\ [][NextProcess]_vars

\* The threads of the process are scheduled: a worker that can run its next
\* statement runs it.
SpecProcessFair == SpecProcess /\ \A w \in Workers : WF_vars(WorkerStep(w))


-----------------------------------------------------------------------------
(* Claims on the shared state of the process (SpecProcess) *)

\* The workers between the assignment of os.environ and the pop.
Holders == {w \in Workers : pc(w) \in {"hub", "environ.pop"}}

\* C22: at most one worker at a time is between setting and popping the
\* GITHUB_TOKEN entry, and hub pull-request of a worker runs with the
\* worker's own token in the entry, whether the tokens of the workers are
\* equal or differ.
C22_OneHolderWithOwnToken ==
    /\ Cardinality(Holders) <= 1
    /\ \A w \in Workers : \A r \in workers.ran[w] :
            r[1] = "hub pull-request" => r[3] = workers.token[w]

\* C23: every external command of an invocation runs in the clone directory
\* of the invocation, also while other workers enter and leave theirs.
C23_CommandsRunInOwnDirectory ==
    \A w \in Workers : \A r \in workers.ran[w] : r[2] = ClonePath(w)

\* C24: when the with statement of _clone_repository is left, normally or
\* by an exception of a setup step or of the body, the clone directory is
\* removed and the working directory is the one from before; stated for a
\* worker that runs alone.
C24_CloneRemovedAndCwdRestored ==
    \A w \in Workers :
        (/\ pc(w) \in {"done", "raised"}
         /\ \A v \in Workers \ {w} : pc(v) = "idle") =>
            /\ ClonePath(w) \notin workers.dirs
            /\ cwd = StartDir

\* C30: a worker that waits for the GITHUB_TOKEN entry gets it in the end,
\* when every hub pull-request of a holder ends, normally or by an
\* exception, and the workers are scheduled.
C30_WaitingWorkerAcquires ==
    \A w \in Workers : (pc(w) = "wait") ~> (pc(w) = "hub")


-----------------------------------------------------------------------------
(* Claims on the review labels after a synchronize delivery (SpecSync) *)

\* The label is of one of the three families of review labels.
ReviewFamily(l) ==
    \/ StartsWith(l, APPROVED_BY_LABEL_PREFIX)
    \/ StartsWith(l, CHANGED_REQUESTED_BY_LABEL_PREFIX)
    \/ StartsWith(l, COMMENTED_BY_LABEL_PREFIX)

\* The labels the other steps of the synchronize handler may remove: the
\* verified label and can-be-merged.
RemovedElsewhere(l) == l \in {VERIFIED_LABEL_STR, CAN_BE_MERGED_STR}

\* C31: after a synchronize delivery of a pull request that is not merged
\* has been processed, no Approved-By-, Changes-requested-By- or
\* Commented-By- label is left on the pull request, and the reset of the
\* review labels removes no label outside these three families.
C31_SynchronizeResetsReviewLabelsOnly ==
    SyncRun =>
        /\ \A l \in Range(last.post) : ~ReviewFamily(l)
        /\ \A l \in Range(last.pre) :
                (~ReviewFamily(l) /\ ~RemovedElsewhere(l)) => l \in Range(last.post)


-----------------------------------------------------------------------------
(* SpecCancel: the lgtm removal command on drawn pull requests and merge
   requests *)

\* The labels the request carries when the command arrives: review labels
\* of the reviewers ann and reviewer-with-a-29-char-login, of the author on
\* GitLab, and the lgtm label of the /lgtm command.
CancelLabels ==
    {<<>>,
     <<APPROVED_BY_LABEL_PREFIX \o Approver, LGTM_STR>>,
     <<APPROVED_BY_LABEL_PREFIX \o LongUser, LGTM_STR>>,
     <<APPROVED_BY_LABEL_PREFIX \o Approver, LGTM_STR,
       APPROVED_BY_LABEL_PREFIX \o LongUser>>,
     <<CHANGED_REQUESTED_BY_LABEL_PREFIX \o LongUser,
       APPROVED_BY_LABEL_PREFIX \o Approver, COMMENTED_BY_LABEL_PREFIX \o Approver>>,
     <<VERIFIED_LABEL_STR, APPROVED_BY_LABEL_PREFIX \o Approver>>}

GitLabCancelLabels ==
    {<<>>,
     <<"Approved-By-" \o Approver>>,
     <<"Reviewed-By-" \o Author>>,
     <<"Approved-By-" \o Approver, "Reviewed-By-" \o Author>>,
     <<"Reviewed-By-" \o LongUser, VERIFIED_LABEL_STR, "Approved-By-" \o Approver>>}

InitCancel ==
    /\ platform \in {"github", "gitlab"}
    /\ labels \in IF platform = "github" THEN CancelLabels ELSE GitLabCancelLabels
    /\ statuses = <<>>
    /\ check_runs = <<>>
    /\ mergeable_state \in {"clean", "behind"}
    /\ approvers = {Approver}
    /\ verified_job = TRUE
    /\ author = Author
    /\ merged = FALSE
    /\ approved \in IF platform = "github" THEN {FALSE}
                    ELSE IF labels = <<>> THEN {FALSE} ELSE BOOLEAN
    /\ events = EmptyBag
    /\ delivered = 0
    /\ prev = NoRun
    /\ last = NoRun
    /\ workers = NoWorker

\* An issue_comment delivery with the body of the removal command.
CancelComment(body, user_login) ==
    /\ platform = "github"
    /\ last = NoRun
    /\ LET h0 == Fetch(labels, statuses)
           h == process_comment_webhook_data(h0, "created", body, user_login,
                    author, check_runs, mergeable_state, approvers)
       IN  Finish("comment", <<"created", body, user_login>>, h0, h, events,
                  approved)
    /\ UNCHANGED <<delivered, workers>>

\* A note delivery with the body of the removal command.
CancelNote(note_body, _username) ==
    /\ platform = "gitlab"
    /\ last = NoRun
    /\ LET h0 == GitLabFetch(labels, approved)
           h == gitlab_process_comment_webhook_data(h0, note_body, _username,
                                                    approvers)
       IN  Finish("note", <<note_body, _username>>, h0, h, events, h.approved)
    /\ UNCHANGED <<delivered, workers>>

NextCancel ==
    \/ \E b \in {"/lgtm cancel", "/lgtm"}, u \in {Approver, LongUser} : CancelComment(b, u)
    \/ \E b \in {"!-lgtm", "!-LGTM", "!lgtm"}, u \in {Approver, Author, LongUser} :
            CancelNote(b, u)

SpecCancel == InitCancel /\ [][NextCancel]_vars

\* The last run is the lgtm removal command of the user u.
CancelRun(u) ==
    \/ last.op = "comment" /\ last.args = <<"created", "/lgtm cancel", u>>
    \/ last.op = "note" /\ last.args[1] \in {"!-lgtm", "!-LGTM"} /\ last.args[2] = u

\* The approval labels of the user u: Approved-By-u, and on GitLab
\* Reviewed-By-u for a user who is not an approver.
ApprovalLabels(u) == {APPROVED_BY_LABEL_PREFIX \o u, approved_by_label(u, approvers)}

EndsWith(s, p) == Len(s) >= Len(p) /\ SubSeq(s, Len(s) - Len(p) + 1, Len(s)) = p

\* The label is a review label of a user other than u.
OfOtherReviewer(l, u) == Contains("-By-", l) /\ ~EndsWith(l, "-By-" \o u)

\* C32: the lgtm removal command of the reviewer u (/lgtm cancel on GitHub,
\* !-lgtm on GitLab) on a request that carries the approval label of u
\* leaves the request without that label and without a recorded approval
\* (on GitHub the handlers record an approval by the label alone, on GitLab
\* also by approve()), and it removes no label of another reviewer.
C32_LgtmCancelRemovesOwnApproval ==
    \A u \in {Approver, Author, LongUser} :
        (CancelRun(u) /\ ApprovalLabels(u) \cap Range(last.pre) # {}) =>
            /\ ApprovalLabels(u) \cap Range(last.post) = {}
            /\ approved = FALSE
            /\ \A l \in Range(last.pre) : OfOtherReviewer(l, u) => l \in Range(last.post)

\* A removal command of ann on GitLab that found the label of ann next to
\* the label of another reviewer, with the approval recorded, and revoked it.
C32_Witness ==
    /\ CancelRun(Approver)
    /\ platform = "gitlab"
    /\ APPROVED_BY_LABEL_PREFIX \o Approver \in Range(last.pre)
    /\ APPROVED_BY_LABEL_PREFIX \o Approver \notin Range(last.post)
    /\ \E l \in Range(last.pre) : OfOtherReviewer(l, Approver) /\ l \in Range(last.post)
    /\ <<"unapprove">> \in Range(last.calls)
    /\ ~approved


-----------------------------------------------------------------------------
(* SpecReview: one pull_request_review delivery on drawn pull requests *)

\* The deliveries: <<action, state of the review>>; dismissed and pending
\* are states manage_reviewed_by_label has no branch for.
ReviewStates ==
    {<<"submitted", "approved">>, <<"submitted", "changes_requested">>,
     <<"submitted", "commented">>, <<"submitted", "dismissed">>,
     <<"submitted", "pending">>, <<"dismissed", "dismissed">>}

SupportedStates == {"approved", LGTM_STR, "changes_requested", "commented"}

InitReview ==
    /\ labels \in OrderedSets(ManageLabels \cup {VERIFIED_LABEL_STR, CAN_BE_MERGED_STR},
                              MaxManageLabels)
    /\ statuses = <<>>
    /\ check_runs = <<>>
    /\ mergeable_state = "clean"
    /\ approvers = {Approver}
    /\ verified_job = TRUE
    /\ platform = "github"
    /\ author \in {Author, ApiUser}
    /\ merged = FALSE
    /\ approved = FALSE
    /\ events = EmptyBag
    /\ delivered = 0
    /\ prev = NoRun
    /\ last = NoRun
    /\ workers = NoWorker

\* A pull_request_review delivery on the fetched pull request.
ReviewDelivery(hook_action, review_state, user_login) ==
    /\ last = NoRun
    /\ LET h0 == Fetch(labels, statuses)
           h == process_pull_request_review_webhook_data(h0, hook_action,
                    review_state, user_login, author, check_runs,
                    mergeable_state, approvers)
       IN  Finish("review", <<hook_action, review_state, user_login>>, h0, h,
                  events, approved)
    /\ UNCHANGED <<delivered, workers>>

NextReview ==
    \E r \in ReviewStates, u \in {Author, Approver} : ReviewDelivery(r[1], r[2], u)

SpecReview == InitReview /\ [][NextReview]_vars

\* The last run is a submitted review with a state that is not supported.
UnsupportedReview ==
    /\ last.op = "review"
    /\ last.args[1] = "submitted"
    /\ last.args[2] \notin SupportedStates

\* C33: manage_reviewed_by_label with a review state other than approved,
\* lgtm, changes_requested and commented changes no label and raises
\* nothing, and the review handler runs check_if_can_be_merged after it.
C33_UnsupportedStateIgnored ==
    UnsupportedReview =>
        /\ Len(last.manage) = 1
        /\ last.manage[1].calls = <<>>
        /\ last.manage[1].post = last.manage[1].pre
        /\ ~last.raised
        /\ Len(last.checks) = 1
        /\ last.checks[1].completed
        /\ \A l \in Range(last.pre) \cup Range(last.post) :
                (l \in Range(last.pre)) # (l \in Range(last.post))
                    => l = CAN_BE_MERGED_STR

\* A dismissed review on a pull request with review labels, after which the
\* evaluation took the stale can-be-merged label away.
C33_Witness ==
    /\ UnsupportedReview
    /\ last.args[2] = "dismissed"
    /\ CHANGED_REQUESTED_BY_LABEL_PREFIX \o Approver \in Range(last.post)
    /\ CAN_BE_MERGED_STR \in Range(last.pre)
    /\ CAN_BE_MERGED_STR \notin Range(last.post)
    /\ last.checks[1].completed


-----------------------------------------------------------------------------
(* SpecChain: one delivery from outside on a drawn pull request, and then
   the deliveries the platform sends for what the server itself did: labeled
   and unlabeled for its label changes, closed for its merge. The status
   deliveries for its status writes are dropped by process_hook. *)

\* The longest label list SpecChain draws, and the number of deliveries
\* after which SpecChain follows a chain no further: the delivery from
\* outside and those the server caused itself.
MaxChainLabels == 2

MaxChainDeliveries == 10

ChainLabels ==
    {VERIFIED_LABEL_STR, HOLD_LABEL_STR, CAN_BE_MERGED_STR,
     APPROVED_BY_LABEL_PREFIX \o Approver,
     CHANGED_REQUESTED_BY_LABEL_PREFIX \o Approver}

ChainStatuses ==
    {<<>>, <<St("tox", FAILURE_STR, 1)>>, <<St(VERIFIED_LABEL_STR, PENDING_STR, 1)>>}

\* The labels a user attaches or detaches by hand.
ManualLabels == {VERIFIED_LABEL_STR, HOLD_LABEL_STR, CAN_BE_MERGED_STR}

\* The pending delivery for the merge of the pull request.
ClosedEvent == <<"closed", "merged">>

\* What the closed handler finds: one other open pull request, behind.
ChainClosedEnv ==
    [DefaultEnv EXCEPT !.is_merged = TRUE,
        !.open_pulls = <<[mergeable_state |-> "behind", labels |-> <<>>]>>]

InitChain ==
    /\ labels \in OrderedSets(ChainLabels, MaxChainLabels)
    /\ statuses \in ChainStatuses
    /\ check_runs = <<>>
    /\ mergeable_state = "clean"
    /\ approvers = {Approver}
    /\ verified_job = TRUE
    /\ platform = "github"
    /\ author \in {Author, ApiUser}
    /\ merged = FALSE
    /\ approved = FALSE
    /\ events = EmptyBag
    /\ delivered = 0
    /\ prev = NoRun
    /\ last = NoRun
    /\ workers = NoWorker

\* The one delivery from outside has not arrived yet.
FromOutside == delivered = 0 /\ delivered' = 1 /\ UNCHANGED workers

\* The deliveries pending after the run h: those for its label changes and
\* the one for its merge.
Pending(_events, h) ==
    IF h.merged THEN _events (+) SetToBag({ClosedEvent}) ELSE _events

ChainReview(review_state) ==
    /\ FromOutside
    /\ LET h0 == Fetch(labels, statuses)
           h == process_pull_request_review_webhook_data(h0, "submitted",
                    review_state, Approver, author, check_runs,
                    mergeable_state, approvers)
       IN  Finish("review", <<"submitted", review_state, Approver>>, h0, h,
                  events, approved)

ChainComment(body) ==
    /\ FromOutside
    /\ LET h0 == Fetch(labels, statuses)
           h == process_comment_webhook_data(h0, "created", body, Approver,
                    author, check_runs, mergeable_state, approvers)
       IN  Finish("comment", <<"created", body, Approver>>, h0, h, events,
                  approved)

ChainSynchronize ==
    /\ FromOutside
    /\ LET h0 == Fetch(labels, statuses)
           h == process_pull_request_synchronize(h0, author, verified_job,
                    check_runs, mergeable_state, approvers)
       IN  Finish("synchronize", <<>>, h0, h, events, approved)

\* A user attaches or detaches a label by hand: the platform changes the
\* labels and sends the delivery.
ManualLabel(hook_action, label) ==
    /\ FromOutside
    /\ IF hook_action = "labeled" THEN label \notin Range(labels)
       ELSE label \in Range(labels)
    /\ labels' = IF hook_action = "labeled" THEN Append(labels, label)
                 ELSE Without(labels, label)
    /\ events' = events (+) SetToBag({<<hook_action, label>>})
    /\ UNCHANGED <<statuses, check_runs, mergeable_state, approvers,
                   verified_job, platform, author, merged, approved, prev, last>>

\* One more delivery of the chain is processed.
Caused ==
    /\ delivered < MaxChainDeliveries
    /\ delivered' = delivered + 1
    /\ UNCHANGED workers

\* The delivery of a pending labeled or unlabeled event.
ChainLabeled(e) ==
    /\ BagIn(e, events)
    /\ e # ClosedEvent
    /\ LET h0 == Fetch(labels, statuses)
           h == process_labeled(h0, e[1], e[2], author, verified_job, check_runs,
                                mergeable_state, approvers)
       IN  Finish(e[1], <<e[2]>>, h0, h,
                  Pending(events (-) SetToBag({e}), h), approved)
    /\ Caused

\* The delivery of the pending closed event of the merge.
ChainClosed ==
    /\ BagIn(ClosedEvent, events)
    /\ LET h0 == [Fetch(labels, statuses) EXCEPT !.env = ChainClosedEnv]
           h == process_pull_request_closed(h0, TRUE)
       IN  Finish("closed", <<TRUE>>, h0, h, events (-) SetToBag({ClosedEvent}),
                  approved)
    /\ Caused

\* The deliveries the server caused itself.
ChainStep ==
    \/ \E e \in BagToSet(events) : ChainLabeled(e)
    \/ ChainClosed

NextChain ==
    \/ \E s \in {"approved", "changes_requested"} : ChainReview(s)
    \/ \E b \in {"/verified", "/verified cancel", "/hold", "/hold cancel", "/lgtm"} :
            ChainComment(b)
    \/ ChainSynchronize
    \/ \E a \in {"labeled", "unlabeled"}, l \in ManualLabels : ManualLabel(a, l)
    \/ ChainStep

SpecChain == InitChain /\ [][NextChain]_vars

\* No delivery is pending: no handler runs, and no label is changed, until
\* the next delivery from outside.
NoPendingEvent == events = EmptyBag

\* C34: from any labels and statuses, after one delivery from outside, the
\* chain of deliveries the server causes itself comes to an end: every
\* chain reaches a state without pending delivery, in which no handler
\* runs, and no chain is cut by the number of deliveries the model follows.
C34_BotEventChainEnds == delivered < MaxChainDeliveries \/ NoPendingEvent

\* A chain of at least two deliveries that the server caused itself has come
\* to its end.
C34_Witness ==
    /\ NoPendingEvent
    /\ delivered >= 3
    /\ last.op \in {"labeled", "unlabeled"}
    /\ prev.op \in {"labeled", "unlabeled", "closed"}
    /\ last.calls # <<>>


-----------------------------------------------------------------------------
(* Claims on the automatic merge and the deliveries around it (Spec) *)

\* C35: when the labeled handler merges a pull request, the pull request
\* passes at that moment the conditions of check_if_can_be_merged; in
\* particular it carries neither hold nor a Changes-requested-By- label,
\* whatever deliveries were processed between the attachment of
\* can-be-merged and the delivery of its labeled event.
C35_MergedOnlyWhenEligible ==
    (last.op = "labeled" /\ Merged) =>
        /\ can_be_merged(last.pre, last.statuses, check_runs, mergeable_state,
                         approvers)
        /\ HOLD_LABEL_STR \notin Range(last.pre)
        /\ ~HasChangesRequested(last.pre)


-----------------------------------------------------------------------------
(* Claims on the cherry-pick command and missing branches (SpecCommand) *)

\* C36: a cherry-pick command on a pull request that is not merged attaches
\* no cherry-pick-<branch> label for a requested branch that the repository
\* does not have; such a branch is answered with the 'does not exist'
\* comment alone, and the existing branches of the command are labelled.
C36_NoLabelForMissingBranch ==
    (/\ CommandRun("cherry-pick")
     /\ Words(CommandArgs) # <<>>
     /\ ~last.env.is_merged)
        => \A b \in Range(Words(CommandArgs)) :
                IF b \in last.env.branches
                THEN Len(CHERRY_PICK_LABEL_PREFIX \o b) <= LabelMaxLen
                        => (CHERRY_PICK_LABEL_PREFIX \o b) \in Range(last.post)
                ELSE /\ (CHERRY_PICK_LABEL_PREFIX \o b) \notin Range(last.post)
                     /\ \E c \in Range(CommandCalls(last)) :
                            /\ c[1] = "create_issue_comment"
                            /\ c[2] = "Target branch does not exist"
                            /\ b \in Range(c[3])


-----------------------------------------------------------------------------
(* Claims on the comment of a cherry-pick that succeeded (SpecProcess) *)

\* The invocation of worker w posted its comment: its git cherry-pick and
\* git push ran, hub pull-request created the pull request, and
\* create_issue_comment returned.
SucceededAndCommented(w) ==
    /\ pc(w) \in {"chdir back", "rmtree", "done"}
    /\ workers.ex[w] # "hub pull-request"
    /\ \A cmd \in {"git cherry-pick", "git push", "hub pull-request"} :
            \E r \in workers.ran[w] : r[1] = cmd

\* C37: a cherry-pick whose git cherry-pick, git push and pull request
\* creation all succeed posts 'Cherry-picked PR' and no 'Manual cherry-pick
\* is needed' comment, also when another cherry-pick runs at the same time
\* and releases the GITHUB_TOKEN entry first.
C37_SuccessPostsCherryPicked ==
    \A w \in Workers :
        SucceededAndCommented(w) => workers.comment[w] = "Cherry-picked PR"


-----------------------------------------------------------------------------
(* SpecVerify: the verified label and the verified status of the latest
   commit, with the pending labeled and unlabeled deliveries processed in
   any order *)

\* How many deliveries from outside a behaviour of SpecVerify processes.
MaxVerifyDeliveries == 3

VerifyBodies == {"/verified", "/verified cancel"}

\* A fresh pull request, and one that was verified.
InitVerify ==
    /\ \/ labels = <<>> /\ statuses = <<>>
       \/ /\ labels = <<VERIFIED_LABEL_STR>>
          /\ statuses = <<St(VERIFIED_LABEL_STR, SUCCESS_STR, 1)>>
    /\ check_runs = <<>>
    /\ mergeable_state = "clean"
    /\ approvers = {Approver}
    /\ verified_job = TRUE
    /\ platform = "github"
    /\ author \in {Author, ApiUser}
    /\ merged = FALSE
    /\ approved = FALSE
    /\ events = EmptyBag
    /\ delivered = 0
    /\ prev = NoRun
    /\ last = NoRun
    /\ workers = NoWorker

VerifyFromOutside ==
    /\ delivered < MaxVerifyDeliveries
    /\ delivered' = delivered + 1
    /\ UNCHANGED workers

\* An issue_comment delivery with a verified command.
VerifyComment(body) ==
    /\ VerifyFromOutside
    /\ LET h0 == Fetch(labels, statuses)
           h == process_comment_webhook_data(h0, "created", body, Approver,
                    author, check_runs, mergeable_state, approvers)
       IN  Finish("comment", <<"created", body, Approver>>, h0, h, events,
                  approved)

\* A synchronize delivery: last_commit is the commit that was pushed, which
\* has no status yet.
VerifySynchronize ==
    /\ VerifyFromOutside
    /\ LET h0 == Fetch(labels, <<>>)
           h == process_pull_request_synchronize(h0, author, verified_job,
                    check_runs, mergeable_state, approvers)
       IN  Finish("synchronize", <<>>, h0, h, events, approved)

\* The delivery of a pending labeled or unlabeled event, whichever of the
\* pending ones is processed next.
VerifyLabeled(e) ==
    /\ BagIn(e, events)
    /\ LET h0 == Fetch(labels, statuses)
           h == process_labeled(h0, e[1], e[2], author, verified_job, check_runs,
                                mergeable_state, approvers)
       IN  Finish(e[1], <<e[2]>>, h0, h, events (-) SetToBag({e}), approved)
    /\ UNCHANGED <<delivered, workers>>

NextVerify ==
    \/ \E body \in VerifyBodies : VerifyComment(body)
    \/ VerifySynchronize
    \/ \E e \in BagToSet(events) : VerifyLabeled(e)

SpecVerify == InitVerify /\ [][NextVerify]_vars

\* The state of the last status with the context verified on the latest
\* commit, "" when there is none.
VerifiedStatus ==
    LET s == SelectSeq(statuses, LAMBDA x : x.context = VERIFIED_LABEL_STR)
    IN  IF s = <<>> THEN "" ELSE s[Len(s)].state

\* C38: with verification enabled and every delivery processed, the status
\* verified of the latest commit is success iff the verified label is on the
\* pull request, in whatever order the labeled(verified), the
\* unlabeled(verified) and the synchronize deliveries were processed.
C38_VerifiedStatusFollowsLabel ==
    (verified_job /\ events = EmptyBag) =>
        (VerifiedStatus = SUCCESS_STR <=> VERIFIED_LABEL_STR \in Range(labels))


-----------------------------------------------------------------------------
(* SpecSize: the size label over the opened and synchronize deliveries of a
   pull request whose size changes with every push *)

\* How many deliveries a behaviour of SpecSize processes.
MaxSizeDeliveries == 3

BRANCH_LABEL_PREFIX == "branch-"

\* additions + deletions of the pull request at a delivery: values on both
\* sides of every threshold of add_size_label.
Sizes == {0, 19, 20, 49, 50, 99, 100, 299, 300, 499, 500}

\* process_pull_request_webhook_data for the action opened, from the fetched
\* pull request on.
process_pull_request_opened(h, parent_committer, _verified_job, base_ref) ==
    LET h1 == set_merge_check_pending(Do(h, <<"create_issue_comment", "welcome_msg">>))
        h2 == _add_label(add_size_label(h1), BRANCH_LABEL_PREFIX \o base_ref)
        h3 == assign_reviewers(Do(h2, <<"add_to_assignees", parent_committer>>),
                               h.env.reviewers, parent_committer)
        h4 == Do(h3, <<"create_issue", parent_committer>>)
        h5 == _process_verified(_install_python_module(run_tox(h4)),
                                parent_committer, _verified_job)
    IN  _build_container(h5, TRUE, "pass")

InitSize ==
    /\ labels = <<>>
    /\ statuses = <<>>
    /\ check_runs = <<>>
    /\ mergeable_state = "clean"
    /\ approvers = {Approver}
    /\ verified_job = TRUE
    /\ platform = "github"
    /\ author \in {Author, ApiUser}
    /\ merged = FALSE
    /\ approved = FALSE
    /\ events = EmptyBag
    /\ delivered = 0
    /\ prev = NoRun
    /\ last = NoRun
    /\ workers = NoWorker

\* The pull_request delivery with the action opened: the first delivery of
\* the pull request.
Opened(size) ==
    /\ delivered = 0
    /\ LET h0 == [Fetch(labels, statuses) EXCEPT !.env.size = size]
           h == process_pull_request_opened(h0, author, verified_job, "main")
       IN  Finish("opened", <<size>>, h0, h, EmptyBag, approved)
    /\ delivered' = 1
    /\ UNCHANGED workers

\* A pull_request delivery with the action synchronize, after a push that
\* left the pull request with additions + deletions = size.
SizeSynchronize(size) ==
    /\ delivered \in 1 .. MaxSizeDeliveries - 1
    /\ LET h0 == [Fetch(labels, <<>>) EXCEPT !.env.size = size]
           h == process_pull_request_synchronize(h0, author, verified_job,
                    check_runs, mergeable_state, approvers)
       IN  Finish("synchronize", <<size>>, h0, h, EmptyBag, approved)
    /\ delivered' = delivered + 1
    /\ UNCHANGED workers

NextSize ==
    \/ \E size \in Sizes : Opened(size)
    \/ \E size \in Sizes : SizeSynchronize(size)

SpecSize == InitSize /\ [][NextSize]_vars

\* The tiers of the size labels as the specification lists them.
Tier(size) ==
    CASE size < 20 -> "XS"
      [] size >= 20 /\ size < 50 -> "S"
      [] size >= 50 /\ size < 100 -> "M"
      [] size >= 100 /\ size < 300 -> "L"
      [] size >= 300 /\ size < 500 -> "XL"
      [] OTHER -> "XXL"

\* The size labels on the pull request.
SizeLabels == {l \in Range(labels) : StartsWith(l, "size/")}

\* C39: after any sequence of opened and synchronize deliveries the pull
\* request carries at most one size label, and it is the one of the tier of
\* its additions + deletions at the last delivery.
C39_OneSizeLabelOfCurrentTier ==
    (last.op \in {"opened", "synchronize"} /\ ~last.raised) =>
        SizeLabels = {"size/" \o Tier(last.args[1])}


-----------------------------------------------------------------------------
(* SpecLines: comments with one command per line *)

\* How many lines the longest comment SpecLines draws holds.
MaxCommentLines == 2

\* The lines of a comment, one command each.
CommandLines ==
    {"/hold", "/hold cancel", "/verified", "/verified cancel", "/wip cancel"}

\* The line ends a comment may come with.
LineEnds == {"\n", "\r\n"}

\* The command a line names, and whether the line cancels it.
LineCommand(line) == parse_command(SubSeq(line, 2, Len(line)))

\* The body of a comment with the lines _lines.
RECURSIVE JoinLines(_, _)
JoinLines(_lines, end) ==
    IF _lines = <<>> THEN ""
    ELSE IF Len(_lines) = 1 THEN _lines[1]
    ELSE _lines[1] \o end \o JoinLines(Tail(_lines), end)

\* The comments: up to MaxCommentLines lines, no command named twice.
CommentLines ==
    {l \in ListsOver(CommandLines, MaxCommentLines) \ {<<>>} :
        \A i, j \in DOMAIN l :
            i # j => LineCommand(l[i])._command # LineCommand(l[j])._command}

InitLines ==
    /\ labels \in {<<>>, <<HOLD_LABEL_STR>>, <<VERIFIED_LABEL_STR, WIP_STR>>,
                   <<HOLD_LABEL_STR, VERIFIED_LABEL_STR>>}
    /\ statuses = <<>>
    /\ check_runs = <<>>
    /\ mergeable_state = "clean"
    /\ approvers = {Approver}
    /\ verified_job = TRUE
    /\ platform = "github"
    /\ author = Author
    /\ merged = FALSE
    /\ approved = FALSE
    /\ events = EmptyBag
    /\ delivered = 0
    /\ prev = NoRun
    /\ last = NoRun
    /\ workers = NoWorker

\* An issue_comment delivery whose body has the lines _lines.
LinesComment(_lines, end) ==
    /\ delivered = 0
    /\ LET body == JoinLines(_lines, end)
           h0 == Fetch(labels, statuses)
           h == process_comment_webhook_data(h0, "created", body, Approver,
                    author, check_runs, mergeable_state, approvers)
       IN  Finish("comment", <<"created", body, Approver, _lines>>, h0, h,
                  events, approved)
    /\ delivered' = 1
    /\ UNCHANGED workers

NextLines == \E _lines \in CommentLines, end \in LineEnds : LinesComment(_lines, end)

SpecLines == InitLines /\ [][NextLines]_vars

\* C40: in a comment with several commands on lines of their own, such as
\* '/hold cancel' followed by '/verified', every command whose argument is
\* cancel is processed as a removal, whatever its position in the comment:
\* its label is not added, and is no longer on the pull request when it was.
C40_CancelOnAnyLineRemoves ==
    (last.op = "comment" /\ ~last.raised) =>
        \A i \in DOMAIN last.args[4] :
            LET c == LineCommand(last.args[4][i])
            IN  c.remove =>
                    /\ \A k \in Range(last.calls) :
                            k[1] = "add_to_labels" => ~StartsWith(k[2], c._command)
                    /\ c._command \notin Range(last.post)

=============================================================================
